---- MODULE Spec2Model ----
(***************************************************************************)
(* Verification model of the universal-netlist server: the circuit         *)
(* traversal engine (circuit-traversal.ts), the query service              *)
(* (service.ts), the Cadence / Altium projections onto the universal       *)
(* netlist model, the compound-file reader (ole-reader.ts) and record      *)
(* parser of the Altium decoder, and queries served concurrently.          *)
(*                                                                         *)
(* Strings are sequences of one-character strings, so that prefix tests,   *)
(* regular expressions, concatenation and natural sorting are computed as  *)
(* the code computes them.  JavaScript objects (ordered maps) are          *)
(* sequences of <<key, value>> pairs with pairwise distinct keys, in       *)
(* Object.entries order.                                                   *)
(***************************************************************************)
EXTENDS Integers, Sequences, FiniteSets, TLC

\* ------------------------------------------------------------------------
\* Characters and strings
\* ------------------------------------------------------------------------

LowerChars ==
  <<"a","b","c","d","e","f","g","h","i","j","k","l","m",
    "n","o","p","q","r","s","t","u","v","w","x","y","z">>

UpperChars ==
  <<"A","B","C","D","E","F","G","H","I","J","K","L","M",
    "N","O","P","Q","R","S","T","U","V","W","X","Y","Z">>

DigitChars ==
  <<"0","1","2","3","4","5","6","7","8","9">>

\* The characters of the model in UTF-16 code unit order (relative order
\* only), as the relational operators of JavaScript compare strings.
CodeOrder ==
  <<" ","(",")","+","-",".">> \o DigitChars \o <<":","@">> \o UpperChars
    \o <<"_">> \o LowerChars

RangeOf(s) ==
  { s[i] : i \in 1..Len(s) }

IndexIn(seq, x) ==
  CHOOSE i \in 1..Len(seq) : seq[i] = x

CharCode(c) ==
  IndexIn(CodeOrder, c)

IsDigit(c) ==
  c \in RangeOf(DigitChars)

IsLetter(c) ==
  c \in RangeOf(UpperChars) \cup RangeOf(LowerChars)

IsWordChar(c) ==
  IsLetter(c) \/ IsDigit(c) \/ c = "_"

IsSpaceChar(c) ==
  c = " "

ToUpperChar(c) ==
  IF c \in RangeOf(LowerChars) THEN UpperChars[IndexIn(LowerChars, c)] ELSE c

ToLowerChar(c) ==
  IF c \in RangeOf(UpperChars) THEN LowerChars[IndexIn(UpperChars, c)] ELSE c

ToUpperCase(s) ==
  [i \in 1..Len(s) |-> ToUpperChar(s[i])]

ToLowerCase(s) ==
  [i \in 1..Len(s) |-> ToLowerChar(s[i])]

StartsWith(s, p) ==
  /\ Len(p) <= Len(s)
  /\ SubSeq(s, 1, Len(p)) = p

DropFirst(s, n) ==
  SubSeq(s, n + 1, Len(s))

AllWordChars(s) ==
  \A i \in 1..Len(s) : IsWordChar(s[i])

\* The value of an absent property (undefined); no string equals it.
Undefined ==
  <<"undefined">>

Null ==
  <<"null">>

\* throw new Error(message): the thrown error, carried as a value with the
\* message in the field error, so that it passes through every caller that
\* has no try/catch as it passes an error result on.
Throw(message) ==
  [thrown |-> TRUE, error |-> message]

IsThrown(x) ==
  "thrown" \in DOMAIN x

\* map[key] of a JavaScript object given as a sequence of <<key, value>>.
Get(map, key) ==
  IF \E i \in 1..Len(map) : map[i][1] = key
  THEN map[CHOOSE i \in 1..Len(map) : map[i][1] = key][2]
  ELSE Undefined

HasKey(map, key) ==
  \E i \in 1..Len(map) : map[i][1] = key

Keys(map) ==
  [i \in 1..Len(map) |-> map[i][1]]

\* The integer a digit string denotes (parseInt(s, 10) of a digit run).
RECURSIVE ParseInt(_)
ParseInt(s) ==
  IF Len(s) = 0 THEN 0
  ELSE 10 * ParseInt(SubSeq(s, 1, Len(s) - 1)) + (IndexIn(DigitChars, s[Len(s)]) - 1)

\* A property key that is a canonical array index ("0", "7", "10"; not "01"):
\* Object.entries lists such keys first, in ascending numeric order, and the
\* other keys after them in insertion order.
IsIndexKey(key) ==
  /\ Len(key) >= 1
  /\ \A i \in 1..Len(key) : IsDigit(key[i])
  /\ (Len(key) > 1 => key[1] # "0")

\* map[key] = value: an existing key keeps its position; a new index key is
\* placed among the index keys, any other new key is appended.
Put(map, key, value) ==
  IF HasKey(map, key)
  THEN [i \in 1..Len(map) |-> IF map[i][1] = key THEN <<key, value>> ELSE map[i]]
  ELSE IF IsIndexKey(key)
  THEN LET before == { i \in 1..Len(map) :
                         IsIndexKey(map[i][1]) /\ ParseInt(map[i][1]) < ParseInt(key) }
           n == Cardinality(before)
       IN  SubSeq(map, 1, n) \o << <<key, value>> >> \o SubSeq(map, n + 1, Len(map))
  ELSE Append(map, <<key, value>>)

\* Map.prototype.set: an existing key keeps its position, a new key is
\* appended (a Map iterates in insertion order whatever the key looks like).
MapSet(map, key, value) ==
  IF HasKey(map, key)
  THEN [i \in 1..Len(map) |-> IF map[i][1] = key THEN <<key, value>> ELSE map[i]]
  ELSE Append(map, <<key, value>>)

InSeq(x, seq) ==
  \E i \in 1..Len(seq) : seq[i] = x

\* String.prototype.trim on the model's alphabet.
RECURSIVE Trim(_)
Trim(s) ==
  IF Len(s) > 0 /\ IsSpaceChar(s[1]) THEN Trim(Tail(s))
  ELSE IF Len(s) > 0 /\ IsSpaceChar(s[Len(s)]) THEN Trim(SubSeq(s, 1, Len(s) - 1))
  ELSE s

\* ------------------------------------------------------------------------
\* Classification predicates (circuit-traversal.ts)
\* ------------------------------------------------------------------------

GroundNames ==
  { <<"G","N","D">>, <<"V","S","S">>, <<"A","G","N","D">>, <<"D","G","N","D">>,
    <<"P","G","N","D">>, <<"S","G","N","D">>, <<"C","G","N","D">> }

\* prefix\w*
MatchPrefixStar(u, p) ==
  StartsWith(u, p) /\ AllWordChars(DropFirst(u, Len(p)))

\* prefix\w+
MatchPrefixPlus(u, p) ==
  StartsWith(u, p) /\ Len(u) > Len(p) /\ AllWordChars(DropFirst(u, Len(p)))

LeadingDigits(s) ==
  IF \E i \in 1..Len(s) : ~IsDigit(s[i])
  THEN (CHOOSE i \in 1..Len(s) :
          ~IsDigit(s[i]) /\ \A j \in 1..(i - 1) : IsDigit(s[j])) - 1
  ELSE Len(s)

\* [+-]?\d+V\d*\w*
MatchVoltage(u) ==
  LET body == IF Len(u) > 0 /\ u[1] \in {"+", "-"} THEN DropFirst(u, 1) ELSE u
      n == LeadingDigits(body)
  IN  /\ n >= 1
      /\ Len(body) > n
      /\ body[n + 1] = "V"
      /\ AllWordChars(DropFirst(body, n + 1))

\* [+-].+
MatchSigned(u) ==
  Len(u) >= 2 /\ u[1] \in {"+", "-"}

GROUND_NET_PATTERN(name) ==
  ToUpperCase(name) \in GroundNames

POWER_NET_PATTERN(name) ==
  LET u == ToUpperCase(name)
  IN  \/ \E p \in { <<"V","C","C">>, <<"V","D","D">>, <<"V","I","N">>,
                    <<"V","O","U","T">>, <<"V","B","A","T">>, <<"V","B","U","S">>,
                    <<"V","S","Y","S">>, <<"P","P">>, <<"P","N">>,
                    <<"L","D","_","P","P">>, <<"L","D","_","P","N">> } :
            MatchPrefixStar(u, p)
      \/ \E p \in { <<"P","W","R","_">>, <<"R","A","I","L","_">> } :
            MatchPrefixPlus(u, p)
      \/ MatchVoltage(u)
      \/ MatchSigned(u)

STOP_NET_PATTERN(name) ==
  GROUND_NET_PATTERN(name) \/ POWER_NET_PATTERN(name)

isGroundNet(netName) ==
  GROUND_NET_PATTERN(netName)

isPowerNet(netName) ==
  POWER_NET_PATTERN(netName)

isStopNet(netName) ==
  STOP_NET_PATTERN(netName)

isPassive(refdes) ==
  LET refdesUpper == ToUpperCase(refdes)
  IN  \/ StartsWith(refdesUpper, <<"R","S">>)
      \/ StartsWith(refdesUpper, <<"R">>)
      \/ StartsWith(refdesUpper, <<"F","R">>)
      \/ StartsWith(refdesUpper, <<"L">>)
      \/ StartsWith(refdesUpper, <<"C">>)
      \/ StartsWith(refdesUpper, <<"F","B">>)

\* /^[A-Z][A-Z0-9_]*$/i
isValidRefdes(refdes) ==
  /\ Len(refdes) >= 1
  /\ IsLetter(refdes[1])
  /\ AllWordChars(refdes)

\* ------------------------------------------------------------------------
\* DNS detection and natural sorting (circuit-traversal.ts)
\* ------------------------------------------------------------------------

\* The literal lit (upper case) occurs in s at position i, ignoring case.
MatchAt(s, i, lit) ==
  /\ i >= 1
  /\ i + Len(lit) - 1 <= Len(s)
  /\ ToUpperCase(SubSeq(s, i, i + Len(lit) - 1)) = lit

\* \b between s[i-1] and s[i].
WordBoundary(s, i) ==
  (i > 1 /\ IsWordChar(s[i - 1])) # (i <= Len(s) /\ IsWordChar(s[i]))

\* The position after a greedy \s* that starts at position i.
RECURSIVE SkipSpaces(_, _)
SkipSpaces(s, i) ==
  IF i <= Len(s) /\ IsSpaceChar(s[i]) THEN SkipSpaces(s, i + 1) ELSE i

\* /\b(DNS|DNP|DNF|DNI)\b|DO\s*NOT\s*(STUFF|POPULATE|INSTALL)|NOT\s*POPULATED|NO\s*POP/i
DNS_PATTERN(haystack) ==
  \E i \in 1..Len(haystack) :
    \/ /\ WordBoundary(haystack, i)
       /\ \E lit \in { <<"D","N","S">>, <<"D","N","P">>, <<"D","N","F">>, <<"D","N","I">> } :
            MatchAt(haystack, i, lit)
       /\ WordBoundary(haystack, i + 3)
    \/ /\ MatchAt(haystack, i, <<"D","O">>)
       /\ LET j == SkipSpaces(haystack, i + 2)
          IN  /\ MatchAt(haystack, j, <<"N","O","T">>)
              /\ \E w \in { <<"S","T","U","F","F">>,
                            <<"P","O","P","U","L","A","T","E">>,
                            <<"I","N","S","T","A","L","L">> } :
                   MatchAt(haystack, SkipSpaces(haystack, j + 3), w)
    \/ /\ MatchAt(haystack, i, <<"N","O","T">>)
       /\ MatchAt(haystack, SkipSpaces(haystack, i + 3),
                  <<"P","O","P","U","L","A","T","E","D">>)
    \/ /\ MatchAt(haystack, i, <<"N","O">>)
       /\ MatchAt(haystack, SkipSpaces(haystack, i + 2), <<"P","O","P">>)

\* `${x ?? ""}`
\* x ?? ""
OrEmpty(x) ==
  IF x = Undefined \/ x = Null THEN <<>> ELSE x

\* A component is a record [mpn, description, pins]; comment and value are
\* absent in the model's components.
isDnsComponent(present, component) ==
  IF ~present THEN FALSE
  ELSE DNS_PATTERN(OrEmpty(component.mpn) \o <<" ">> \o OrEmpty(component.description)
                     \o <<" ">> \o <<>>)

\* str.split(/(\d+)/): text and digit runs alternate, starting and ending
\* with a (possibly empty) text run.
RECURSIVE SplitDigitRuns(_)
SplitDigitRuns(str) ==
  IF \A i \in 1..Len(str) : ~IsDigit(str[i]) THEN << str >>
  ELSE LET a == CHOOSE i \in 1..Len(str) :
                  IsDigit(str[i]) /\ \A j \in 1..(i - 1) : ~IsDigit(str[j])
           n == LeadingDigits(DropFirst(str, a - 1))
       IN  << SubSeq(str, 1, a - 1), SubSeq(str, a, a + n - 1) >>
             \o SplitDigitRuns(DropFirst(str, a + n - 1))

\* Key parts that keep a digit run as text.
KeyPartsAsText(parts) ==
  [i \in 1..Len(parts) |-> [num |-> FALSE, n |-> 0, s |-> ToLowerCase(parts[i])]]

\* A key part is a number [num |-> TRUE, n] or a lower-cased text
\* [num |-> FALSE, s].
KeyParts(parts) ==
  [i \in 1..Len(parts) |->
     IF Len(parts[i]) > 0 /\ IsDigit(parts[i][1])
     THEN [num |-> TRUE, n |-> ParseInt(parts[i]), s |-> <<>>]
     ELSE [num |-> FALSE, n |-> 0, s |-> ToLowerCase(parts[i])]]

naturalSortKey(s) ==
  KeyParts(SplitDigitRuns(s))

\* a < b on strings: code unit order.
RECURSIVE StrLess(_, _)
StrLess(a, b) ==
  IF Len(b) = 0 THEN FALSE
  ELSE IF Len(a) = 0 THEN TRUE
  ELSE IF a[1] = b[1] THEN StrLess(Tail(a), Tail(b))
  ELSE CharCode(a[1]) < CharCode(b[1])

\* Number(s) of a text part (a string without digits): 0 when it is empty or
\* blank, NaN otherwise.
TextIsNaN(s) ==
  \E i \in 1..Len(s) : ~IsSpaceChar(s[i])

\* aVal < bVal on key parts, with JavaScript's conversion of a string to a
\* number when the other operand is a number (a comparison with NaN is false).
KeyLess(aVal, bVal) ==
  IF aVal.num /\ bVal.num THEN aVal.n < bVal.n
  ELSE IF ~aVal.num /\ ~bVal.num THEN StrLess(aVal.s, bVal.s)
  ELSE IF aVal.num THEN ~TextIsNaN(bVal.s) /\ aVal.n < 0
  ELSE ~TextIsNaN(aVal.s) /\ 0 < bVal.n

RECURSIVE NaturalSortFrom(_, _, _)
NaturalSortFrom(aKey, bKey, i) ==
  IF i > Len(aKey) \/ i > Len(bKey) THEN Len(aKey) - Len(bKey)
  ELSE IF KeyLess(aKey[i], bKey[i]) THEN -1
  ELSE IF KeyLess(bKey[i], aKey[i]) THEN 1
  ELSE NaturalSortFrom(aKey, bKey, i + 1)

naturalSort(a, b) ==
  NaturalSortFrom(naturalSortKey(a), naturalSortKey(b), 1)

\* a.localeCompare(b) on the model's alphabet: the collation order of the
\* root locale, punctuation before digits before letters, letters compared
\* without case first and lower case before upper case on a tie.
CollationOrder ==
  <<"_","-",":",".","(",")","@"," ","+">> \o DigitChars \o LowerChars

RECURSIVE PrimaryCompare(_, _)
PrimaryCompare(a, b) ==
  IF Len(a) = 0 /\ Len(b) = 0 THEN 0
  ELSE IF Len(a) = 0 THEN -1
  ELSE IF Len(b) = 0 THEN 1
  ELSE LET x == IndexIn(CollationOrder, ToLowerChar(a[1]))
           y == IndexIn(CollationOrder, ToLowerChar(b[1]))
       IN  IF x < y THEN -1 ELSE IF x > y THEN 1
           ELSE PrimaryCompare(Tail(a), Tail(b))

RECURSIVE CaseCompare(_, _)
CaseCompare(a, b) ==
  IF Len(a) = 0 \/ Len(b) = 0 THEN 0
  ELSE IF a[1] = b[1] THEN CaseCompare(Tail(a), Tail(b))
  ELSE IF a[1] \in RangeOf(LowerChars) THEN -1 ELSE 1

TieBreak(primary, a, b) ==
  IF primary # 0 THEN primary ELSE CaseCompare(a, b)

localeCompare(a, b) ==
  TieBreak(PrimaryCompare(a, b), a, b)

\* comparePinNumbers of the Altium net extractor: Number.parseInt(a, 10) is a number when a starts with digits.
comparePinNumbers(a, b) ==
  LET aNum == LeadingDigits(a) > 0
      bNum == LeadingDigits(b) > 0
  IN  IF aNum /\ bNum
      THEN ParseInt(SubSeq(a, 1, LeadingDigits(a))) - ParseInt(SubSeq(b, 1, LeadingDigits(b)))
      ELSE IF aNum THEN -1
      ELSE IF bNum THEN 1
      ELSE localeCompare(a, b)

FirstPin(conn) ==
  IF Len(conn.pins) > 0 THEN conn.pins[1] ELSE <<>>

\* The comparators the code passes to Array.prototype.sort.
SortField(by, x) ==
  CASE by \in {"pin", "locale"} -> x
    [] by = "refdes" -> x.refdes
    [] by = "firstPin" -> FirstPin(x)
    [] by = "net" -> x.net

Comparator(by, a, b) ==
  CASE by \in {"pin", "refdes", "firstPin"} -> naturalSort(SortField(by, a), SortField(by, b))
    [] by \in {"net", "locale"} -> localeCompare(SortField(by, a), SortField(by, b))
    [] by = "pinNumber" -> comparePinNumbers(a, b)
    [] by = "default" -> IF StrLess(a, b) THEN -1 ELSE IF StrLess(b, a) THEN 1 ELSE 0
    [] by = "countDesc" -> b.count - a.count
    [] by = "totalDesc" -> b.total_count - a.total_count

\* Array.prototype.sort is stable; the model sorts by stable insertion.
RECURSIVE InsertSorted(_, _, _)
InsertSorted(sorted, x, by) ==
  IF Len(sorted) = 0 THEN << x >>
  ELSE IF Comparator(by, sorted[Len(sorted)], x) > 0
  THEN Append(InsertSorted(SubSeq(sorted, 1, Len(sorted) - 1), x, by), sorted[Len(sorted)])
  ELSE Append(sorted, x)

RECURSIVE Sort(_, _)
Sort(seq, by) ==
  IF Len(seq) = 0 THEN <<>>
  ELSE InsertSorted(Sort(SubSeq(seq, 1, Len(seq) - 1), by), seq[Len(seq)], by)

\* ------------------------------------------------------------------------
\* traverseCircuitFromNet (circuit-traversal.ts)
\*
\* env  = [nets, components, skipTypes, includeDns]: the arguments, with
\*        skipTypes already trimmed and upper-cased.
\* st   = the local state of one call: visitedNets (a Set in insertion
\*        order), visitedPins, queue, flatCircuit, skipped,
\*        skippedComponents, and two history fields: expanded (the nets
\*        dequeued so far) and reachedVia (for each net added at line 356,
\*        the net being expanded and the component it was reached through).
\* nets[net][refdes] is an array of pins (a scalar pin p is the array <<p>>,
\* line 316).  A pin entry is [name, net], name = Undefined for a bare net.
\* ------------------------------------------------------------------------

getPinNet(entry) ==
  entry.net

createPinEntry(pinNumber, pinName, netName) ==
  LET normalizedName == IF pinName = Undefined THEN Undefined ELSE Trim(pinName)
  IN  IF normalizedName # Undefined /\ normalizedName # <<>> /\ normalizedName # pinNumber
      THEN [name |-> normalizedName, net |-> netName]
      ELSE [name |-> Undefined, net |-> netName]

NormalizeSkipTypes(skipTypes) ==
  [i \in 1..Len(skipTypes) |-> ToUpperCase(Trim(skipTypes[i]))]

\* nets[net] || {}
NetConns(env, net) ==
  IF HasKey(env.nets, net) THEN Get(env.nets, net) ELSE <<>>

HasComp(env, refdes) ==
  HasKey(env.components, refdes)

CompOf(env, refdes) ==
  Get(env.components, refdes)

\* `${refdes}:${pin}`
PinId(refdes, pin) ==
  refdes \o <<":">> \o pin

FlatEntry(env, refdes, pin, net, dnsFlag) ==
  [refdes |-> refdes, pin |-> pin, net |-> net,
   mpn |-> IF HasComp(env, refdes) THEN CompOf(env, refdes).mpn ELSE Undefined,
   description |->
     IF HasComp(env, refdes) THEN CompOf(env, refdes).description ELSE Undefined,
   dns |-> dnsFlag]

\* Returns [skip, st]: the decision and the state with the skip counters
\* updated.  An empty matched type is falsy and skips nothing.
shouldSkipComponent(env, st, refdes, isDns) ==
  IF ~env.includeDns /\ isDns THEN [skip |-> TRUE, st |-> st]
  ELSE LET refdesUpper == ToUpperCase(refdes)
           hits == { i \in 1..Len(env.skipTypes) : StartsWith(refdesUpper, env.skipTypes[i]) }
       IN  IF hits = {} THEN [skip |-> FALSE, st |-> st]
           ELSE LET matchedType == env.skipTypes[CHOOSE i \in hits : \A j \in hits : i <= j]
                IN  IF matchedType = <<>> THEN [skip |-> FALSE, st |-> st]
                    ELSE IF refdes \in st.skippedComponents THEN [skip |-> TRUE, st |-> st]
                    ELSE [skip |-> TRUE,
                          st |-> [st EXCEPT
                            !.skippedComponents = @ \cup {refdes},
                            !.skipped = Put(@, matchedType,
                              (IF HasKey(@, matchedType) THEN Get(@, matchedType) ELSE 0) + 1)]]

\* A visited-pin test that never finds the pin.
AlreadyVisitedNever(st, pinId) ==
  FALSE

\* Line 320: visitedPins.has(pinId).
AlreadyVisited(st, pinId) ==
  pinId \in st.visitedPins

\* A guard that follows every component that has a record.
FollowsThroughAny(env, refdes) ==
  HasComp(env, refdes)

\* Line 334: comp?.pins && isPassive(refdes).
FollowsThrough(env, refdes) ==
  HasComp(env, refdes) /\ isPassive(refdes)

\* A guard that stops at no net.
StopsAtNever(netName) ==
  FALSE

\* Line 358: if (isStopNet(otherNetName)) continue.
StopsAt(netName) ==
  isStopNet(netName)

\* A loop tail that never enqueues.
EnqueueNever(st, netName, hasPassiveToFollow) ==
  st

\* Lines 398-400.
Enqueue(st, netName, hasPassiveToFollow) ==
  IF hasPassiveToFollow THEN [st EXCEPT !.queue = Append(@, netName)] ELSE st

\* Lines 381-393: one pin of an active component on a newly reached net.
ActivePin(env, st, otherRefdes, activePin, otherNetName, otherDnsFlag) ==
  IF PinId(otherRefdes, activePin) \in st.visitedPins THEN st
  ELSE [st EXCEPT
          !.visitedPins = @ \cup {PinId(otherRefdes, activePin)},
          !.flatCircuit = Append(@,
            FlatEntry(env, otherRefdes, activePin, otherNetName, otherDnsFlag))]

\* Lines 379-394: the pins an active component has on a newly reached net.
RECURSIVE ActivePinLoop(_, _, _, _, _, _, _)
ActivePinLoop(env, st, otherRefdes, pinsArray, k, otherNetName, otherDnsFlag) ==
  IF k > Len(pinsArray) THEN st
  ELSE ActivePinLoop(env,
         ActivePin(env, st, otherRefdes, pinsArray[k], otherNetName, otherDnsFlag),
         otherRefdes, pinsArray, k + 1, otherNetName, otherDnsFlag)

\* Lines 367-395: a component on a newly reached net, r being what
\* shouldSkipComponent answered for it.
InspectComponent(env, r, otherRefdes, pinsOnNet, otherDns, otherNetName, hasPassiveToFollow) ==
  IF r.skip THEN [st |-> r.st, hasPassiveToFollow |-> hasPassiveToFollow]
  ELSE IF isPassive(otherRefdes) THEN [st |-> r.st, hasPassiveToFollow |-> TRUE]
  ELSE [st |-> ActivePinLoop(env, r.st, otherRefdes, pinsOnNet, 1, otherNetName,
                             env.includeDns /\ otherDns),
        hasPassiveToFollow |-> hasPassiveToFollow]

\* Lines 364-367.
InspectEntry(env, st, otherRefdes, pinsOnNet, otherDns, otherNetName, hasPassiveToFollow) ==
  InspectComponent(env, shouldSkipComponent(env, st, otherRefdes, otherDns),
                   otherRefdes, pinsOnNet, otherDns, otherNetName, hasPassiveToFollow)

\* Lines 363-396: the components on a newly reached net.
RECURSIVE InspectLoop(_, _, _, _, _, _)
RECURSIVE InspectRest(_, _, _, _, _)
InspectRest(env, inspected, otherNetConns, k, otherNetName) ==
  InspectLoop(env, inspected.st, otherNetConns, k, otherNetName,
              inspected.hasPassiveToFollow)

InspectLoop(env, st, otherNetConns, k, otherNetName, hasPassiveToFollow) ==
  IF k > Len(otherNetConns) THEN [st |-> st, hasPassiveToFollow |-> hasPassiveToFollow]
  ELSE InspectRest(env,
         InspectEntry(env, st, otherNetConns[k][1], otherNetConns[k][2],
                      isDnsComponent(HasComp(env, otherNetConns[k][1]),
                                     CompOf(env, otherNetConns[k][1])),
                      otherNetName, hasPassiveToFollow),
         otherNetConns, k + 1, otherNetName)

\* Lines 398-400, on what the inspection of the net returned.
EnqueueInspected(inspected, otherNetName) ==
  Enqueue(inspected.st, otherNetName, inspected.hasPassiveToFollow)

\* Lines 358-400: a net added to visitedNets.
ReachNet(env, st, otherNetName) ==
  IF StopsAt(otherNetName) THEN st
  ELSE EnqueueInspected(
         InspectLoop(env, st, NetConns(env, otherNetName), 1, otherNetName, FALSE),
         otherNetName)

\* Lines 354-400: the net of another pin, after the pin was reported.
FollowNet(env, st, refdes, otherNetName, currentNet) ==
  IF InSeq(otherNetName, st.visitedNets) THEN st
  ELSE ReachNet(env,
         [st EXCEPT
            !.visitedNets = Append(@, otherNetName),
            !.reachedVia = @ \cup
               {[net |-> otherNetName, from |-> currentNet, refdes |-> refdes]}],
         otherNetName)

\* Lines 336-400: one other pin of a passive component.
OtherPin(env, st, refdes, pin, dnsFlag, otherPin, otherNetName, currentNet) ==
  IF otherPin = pin THEN st
  ELSE IF PinId(refdes, otherPin) \in st.visitedPins THEN st
  ELSE FollowNet(env,
         [st EXCEPT
            !.visitedPins = @ \cup {PinId(refdes, otherPin)},
            !.flatCircuit = Append(@,
               FlatEntry(env, refdes, otherPin, otherNetName, dnsFlag))],
         refdes, otherNetName, currentNet)

\* Lines 335-401: the other pins of a passive component.
RECURSIVE OtherPinLoop(_, _, _, _, _, _, _, _)
OtherPinLoop(env, st, refdes, pin, dnsFlag, compPins, j, currentNet) ==
  IF j > Len(compPins) THEN st
  ELSE OtherPinLoop(env,
         OtherPin(env, st, refdes, pin, dnsFlag, compPins[j][1],
                  getPinNet(compPins[j][2]), currentNet),
         refdes, pin, dnsFlag, compPins, j + 1, currentNet)

\* Lines 334-402: a pin that was reported.
FollowPin(env, st, refdes, pin, dnsFlag, currentNet) ==
  IF FollowsThrough(env, refdes)
  THEN OtherPinLoop(env, st, refdes, pin, dnsFlag, CompOf(env, refdes).pins, 1,
                    currentNet)
  ELSE st

\* Lines 319-402: one pin a component has on the net being expanded.
Pin(env, st, refdes, pin, dnsFlag, currentNet) ==
  IF AlreadyVisited(st, PinId(refdes, pin)) THEN st
  ELSE FollowPin(env,
         [st EXCEPT
            !.visitedPins = @ \cup {PinId(refdes, pin)},
            !.flatCircuit = Append(@, FlatEntry(env, refdes, pin, currentNet, dnsFlag))],
         refdes, pin, dnsFlag, currentNet)

\* Lines 318-403: the pins a component has on the net being expanded.
RECURSIVE PinLoop(_, _, _, _, _, _, _)
PinLoop(env, st, refdes, dnsFlag, pinArray, i, currentNet) ==
  IF i > Len(pinArray) THEN st
  ELSE PinLoop(env, Pin(env, st, refdes, pinArray[i], dnsFlag, currentNet),
               refdes, dnsFlag, pinArray, i + 1, currentNet)

\* Lines 311-403: a component on the net being expanded, r being what
\* shouldSkipComponent answered for it.
EntryComponent(env, r, refdes, pins, dns, currentNet) ==
  IF r.skip THEN r.st
  ELSE PinLoop(env, r.st, refdes, env.includeDns /\ dns, pins, 1, currentNet)

\* Lines 308-311.
Entry(env, st, refdes, pins, dns, currentNet) ==
  EntryComponent(env, shouldSkipComponent(env, st, refdes, dns), refdes, pins, dns,
                 currentNet)

\* Lines 307-404: the components on the net being expanded.
RECURSIVE EntryLoop(_, _, _, _, _)
EntryLoop(env, st, netConnections, e, currentNet) ==
  IF e > Len(netConnections) THEN st
  ELSE EntryLoop(env,
         Entry(env, st, netConnections[e][1], netConnections[e][2],
               isDnsComponent(HasComp(env, netConnections[e][1]),
                              CompOf(env, netConnections[e][1])),
               currentNet),
         netConnections, e + 1, currentNet)

\* One iteration of the while loop (lines 303-405).
ExpandNet(env, st) ==
  LET currentNet == Head(st.queue)
      st0 == [st EXCEPT !.queue = Tail(@), !.expanded = Append(@, currentNet)]
  IN  EntryLoop(env, st0, NetConns(env, currentNet), 1, currentNet)

\* Lines 273-301.
InitialTraversalState(startNet) ==
  [visitedNets |-> << startNet >>, visitedPins |-> {}, queue |-> << startNet >>,
   flatCircuit |-> <<>>, skipped |-> <<>>, skippedComponents |-> {},
   expanded |-> <<>>, reachedVia |-> {}]

\* Whole loop, lines 303-405.
RECURSIVE RunLoop(_, _)
RunLoop(env, st) ==
  IF Len(st.queue) = 0 THEN st ELSE RunLoop(env, ExpandNet(env, st))

\* Lines 199-221: fold the flat entries into byRefdes (insertion order), each
\* with netToPins (insertion order, pins without duplicates).
RECURSIVE FoldByRefdes(_, _, _)
FoldByRefdes(flat, i, byRefdes) ==
  IF i > Len(flat) THEN byRefdes
  ELSE LET entry == flat[i]
           comp == IF HasKey(byRefdes, entry.refdes) THEN Get(byRefdes, entry.refdes)
                   ELSE [refdes |-> entry.refdes, mpn |-> entry.mpn,
                         description |-> entry.description, dns |-> entry.dns,
                         netToPins |-> <<>>]
           pinsForNet == IF HasKey(comp.netToPins, entry.net)
                         THEN Get(comp.netToPins, entry.net) ELSE <<>>
           pinsNext == IF InSeq(entry.pin, pinsForNet) THEN pinsForNet
                       ELSE Append(pinsForNet, entry.pin)
           compNext == [comp EXCEPT !.netToPins = MapSet(@, entry.net, pinsNext)]
       IN  FoldByRefdes(flat, i + 1, MapSet(byRefdes, entry.refdes, compNext))

\* Lines 223-245.
GroupedComponent(comp) ==
  [refdes |-> comp.refdes, mpn |-> comp.mpn, description |-> comp.description,
   dns |-> comp.dns,
   connections |->
     Sort([k \in 1..Len(comp.netToPins) |->
             [net |-> comp.netToPins[k][1], pins |-> Sort(comp.netToPins[k][2], "pin")]],
          "firstPin")]

GroupedComponents(byRefdes) ==
  [k \in 1..Len(byRefdes) |-> GroupedComponent(byRefdes[k][2])]

groupCircuitPins(flat, visitedNets, skipped) ==
  [components |-> GroupedComponents(FoldByRefdes(flat, 1, <<>>)),
   visited_nets |-> visitedNets,
   skipped |-> skipped]

\* Lines 259-408.  options = [skipTypes, includeDns].
TraversalEnv(nets, components, options) ==
  [nets |-> nets, components |-> components,
   skipTypes |-> NormalizeSkipTypes(options.skipTypes),
   includeDns |-> options.includeDns]

EmptyTraversalResult ==
  [components |-> <<>>, visited_nets |-> <<>>, skipped |-> <<>>]

\* Line 407: the result of the state the loop ends in.
GroupTraversal(st) ==
  groupCircuitPins(st.flatCircuit, st.visitedNets, st.skipped)

traverseCircuitFromNet(startNet, nets, components, options) ==
  IF startNet = <<>> \/ ~HasKey(nets, startNet) THEN EmptyTraversalResult
  ELSE GroupTraversal(RunLoop(TraversalEnv(nets, components, options),
                              InitialTraversalState(startNet)))

\* ------------------------------------------------------------------------
\* computeCircuitHash (circuit-traversal.ts)
\* ------------------------------------------------------------------------

SortComponents(components) ==
  Sort(components, "refdes")

\* Lines 138-147.
CanonicalOf(sortedComponents) ==
  [k \in 1..Len(sortedComponents) |->
     [refdes |-> sortedComponents[k].refdes,
      mpn |-> sortedComponents[k].mpn,
      connections |->
        Sort([c \in 1..Len(sortedComponents[k].connections) |->
                [pins |-> Sort(sortedComponents[k].connections[c].pins, "pin"),
                 net |-> sortedComponents[k].connections[c].net]],
             "net")]]

CanonicalForm(components) ==
  CanonicalOf(SortComponents(components))

\* SHA-256 is taken to be collision free: the digest of the canonical JSON
\* stands for its first 16 hex characters, and the empty digest for
\* "0000000000000000".
computeCircuitHash(components) ==
  IF Len(components) = 0 THEN [digest |-> <<>>]
  ELSE [digest |-> CanonicalForm(components)]

\* ------------------------------------------------------------------------
\* State
\* ------------------------------------------------------------------------

VARIABLES
  pc,                 \* position of the call being modelled
  nets,               \* N: net -> refdes -> pins
  components,         \* C: refdes -> [mpn, description, pins]
  startNet,           \* argument of traverseCircuitFromNet
  options,            \* [skipTypes, includeDns]
  visitedNets,        \* locals of traverseCircuitFromNet ...
  visitedPins,
  queue,
  flatCircuit,
  skipped,
  skippedComponents,
  expanded,           \* history: the nets dequeued at line 304, in order
  reachedVia,         \* history: how each net added at line 356 was reached
  result,             \* the TraversalResult returned
  hashPc,             \* position of the two computeCircuitHash calls
  hashComponents,     \* a component list
  hashReordered,      \* the same components in another order
  hashFirst,          \* computeCircuitHash(hashComponents)
  hashSecond,         \* computeCircuitHash(hashReordered)
  loadPc,             \* position of the calls on a design
  designFile,         \* the design on disk: its files, or its sheets
  decoded,            \* history: what the decoder returned to loadNetlist
  loaded,             \* what loadNetlist returned
  pinQuery,           \* arguments of queryXnetByPinName
  pinResult,          \* its result
  netQuery,           \* arguments of queryXnetByNetName
  netResult,          \* its result
  olePc,              \* position of readOleStream in the compound file
  oleFile,            \* the compound file: its FAT and its sectors
  oleMiniFat,         \* this.miniFat
  oleMiniStream,      \* this.miniStream: for each byte, whether it was copied
  oleWalk,            \* locals of the chain walk or stream read in progress
  oleError,           \* message of the error thrown, if any
  recPc,              \* position of the parseRecords call
  recBuffer,          \* the FileHeader stream, a sequence of bytes
  recResult,          \* the AltiumSchematic returned
  framePc,            \* position of the calls made on one model
  frameNets,          \* N as it is now
  frameComponents,    \* C as it is now
  frameBefore,        \* history: N and C before the first call
  frameCall,          \* [startNet, options] of traverseCircuitFromNet
  frameResult,        \* the TraversalResult
  frameHash,          \* computeCircuitHash of its components
  frameAggregated,    \* aggregateCircuitByMpn of its components
  reqPc,              \* per request: where its query function is suspended
  reqQuery,           \* per request: the query and the design it names
  reqLocals,          \* per call of the decoder: its sheet index and merged result
  reqNetlist,         \* per request: the netlist loadNetlist resolved to
  reqResponse,        \* per request: the response
  sortPc,             \* position of the comparisons made on three strings
  sortArgs,           \* the strings a, b and c
  sortCompared,       \* naturalSort of the pairs
  sortSorted,         \* [a, b, c].sort(naturalSort)
  discPc,             \* position of discovery and parsing on one directory tree
  discTree,           \* the design files and complete .dat sets, in walk order
  discAssignments,    \* matchDatSetsToDesigns: per design file, its .dat set
  discParsed,         \* the design parsed and what findCadenceDatFiles returned
  connPc,             \* position of the grouping of one sheet's devices
  connDevices,        \* the connectable devices of the sheet, with computed coordinates
  connGroups,         \* findAllConnectedComponents: the groups, as device indices
  projPc,             \* position of parseAltiumProject on one project
  projSheets,         \* the sheets of the project, in the order they were found
  projNext,           \* the sheet the loop parses next
  projAll,            \* allNets and allComponents so far
  hierPc,             \* position of the hierarchy being built and searched
  hierRecords,        \* the flat body list of the sheet
  hierHierarchy,      \* buildHierarchy of the list
  hierFlat,           \* flattenHierarchy: the indices met, in order
  hierFound           \* findRecordByIndex: the index looked for and what was found

travLocals ==
  << visitedNets, visitedPins, queue, flatCircuit, skipped, skippedComponents,
     expanded, reachedVia >>

travVars ==
  << pc, nets, components, startNet, options, travLocals, result >>

hashVars ==
  << hashPc, hashComponents, hashReordered, hashFirst, hashSecond >>

loadVars ==
  << loadPc, designFile, decoded, loaded, pinQuery, pinResult, netQuery, netResult >>

oleVars ==
  << olePc, oleFile, oleMiniFat, oleMiniStream, oleWalk, oleError >>

recVars ==
  << recPc, recBuffer, recResult >>

frameVars ==
  << framePc, frameNets, frameComponents, frameBefore, frameCall, frameResult,
     frameHash, frameAggregated >>

reqVars ==
  << reqPc, reqQuery, reqLocals, reqNetlist, reqResponse >>

sortVars ==
  << sortPc, sortArgs, sortCompared, sortSorted >>

discVars ==
  << discPc, discTree, discAssignments, discParsed >>

connVars ==
  << connPc, connDevices, connGroups >>

projVars ==
  << projPc, projSheets, projNext, projAll >>

hierVars ==
  << hierPc, hierRecords, hierHierarchy, hierFlat, hierFound >>

vars ==
  << travVars, hashVars, loadVars, oleVars, recVars, frameVars, reqVars,
     sortVars, discVars, connVars, projVars, hierVars >>

\* The variables a specification leaves alone.
exceptTravVars ==
  << hashVars, loadVars, oleVars, recVars, frameVars, reqVars, sortVars,
     discVars, connVars, projVars, hierVars >>

exceptHashVars ==
  << travVars, loadVars, oleVars, recVars, frameVars, reqVars, sortVars,
     discVars, connVars, projVars, hierVars >>

exceptLoadVars ==
  << travVars, hashVars, oleVars, recVars, frameVars, reqVars, sortVars,
     discVars, connVars, projVars, hierVars >>

exceptOleVars ==
  << travVars, hashVars, loadVars, recVars, frameVars, reqVars, sortVars,
     discVars, connVars, projVars, hierVars >>

exceptRecVars ==
  << travVars, hashVars, loadVars, oleVars, frameVars, reqVars, sortVars,
     discVars, connVars, projVars, hierVars >>

exceptFrameVars ==
  << travVars, hashVars, loadVars, oleVars, recVars, reqVars, sortVars,
     discVars, connVars, projVars, hierVars >>

exceptReqVars ==
  << travVars, hashVars, loadVars, oleVars, recVars, frameVars, sortVars,
     discVars, connVars, projVars, hierVars >>

exceptSortVars ==
  << travVars, hashVars, loadVars, oleVars, recVars, frameVars, reqVars,
     discVars, connVars, projVars, hierVars >>

exceptDiscVars ==
  << travVars, hashVars, loadVars, oleVars, recVars, frameVars, reqVars,
     sortVars, connVars, projVars, hierVars >>

exceptConnVars ==
  << travVars, hashVars, loadVars, oleVars, recVars, frameVars, reqVars,
     sortVars, discVars, projVars, hierVars >>

exceptProjVars ==
  << travVars, hashVars, loadVars, oleVars, recVars, frameVars, reqVars,
     sortVars, discVars, connVars, hierVars >>

exceptHierVars ==
  << travVars, hashVars, loadVars, oleVars, recVars, frameVars, reqVars,
     sortVars, discVars, connVars, projVars >>

HashIdle ==
  /\ hashPc = "idle"
  /\ hashComponents = <<>>
  /\ hashReordered = <<>>
  /\ hashFirst = [digest |-> <<>>]
  /\ hashSecond = [digest |-> <<>>]

\* The locals of a chain walk or stream read before it starts.
NoWalk ==
  [sector |-> 0, chain |-> <<>>, offset |-> 0, size |-> 0, steps |-> 0,
   mini |-> FALSE, result |-> <<>>]

OleIdle ==
  /\ olePc = "idle"
  /\ oleFile = [fat |-> <<>>, sectors |-> 0]
  /\ oleMiniFat = <<>>
  /\ oleMiniStream = <<>>
  /\ oleWalk = NoWalk
  /\ oleError = ""

\* naturalSort is not being checked.
SortIdle ==
  /\ sortPc = "idle"
  /\ sortArgs = <<>>
  /\ sortCompared = [ab |-> 0, ba |-> 0, bc |-> 0, ac |-> 0]
  /\ sortSorted = <<>>

\* No directory tree is being searched.
DiscoveryIdle ==
  /\ discPc = "idle"
  /\ discTree = [designFiles |-> <<>>, datSets |-> <<>>]
  /\ discAssignments = <<>>
  /\ discParsed = [design |-> 0, datFiles |-> [found |-> FALSE, directory |-> <<>>]]

\* No sheet is being grouped into nets.
ConnectivityIdle ==
  /\ connPc = "idle"
  /\ connDevices = <<>>
  /\ connGroups = <<>>

\* No Altium project is being decoded.
ProjectIdle ==
  /\ projPc = "idle"
  /\ projSheets = <<>>
  /\ projNext = 0
  /\ projAll = [nets |-> <<>>, components |-> <<>>]

\* No record list is being arranged into a hierarchy.
HierarchyIdle ==
  /\ hierPc = "idle"
  /\ hierRecords = <<>>
  /\ hierHierarchy = [records |-> <<>>, roots |-> <<>>, children |-> <<>>]
  /\ hierFlat = <<>>
  /\ hierFound = [index |-> 0, found |-> <<>>]

\* No request is being served.
RequestsIdle ==
  /\ reqPc = <<>>
  /\ reqQuery = <<>>
  /\ reqLocals = <<>>
  /\ reqNetlist = <<>>
  /\ reqResponse = <<>>

FrameIdle ==
  /\ framePc = "idle"
  /\ frameNets = <<>>
  /\ frameComponents = <<>>
  /\ frameBefore = [nets |-> <<>>, components |-> <<>>]
  /\ frameCall = [startNet |-> <<>>, options |-> [skipTypes |-> <<>>, includeDns |-> FALSE]]
  /\ frameResult = [components |-> <<>>, visited_nets |-> <<>>, skipped |-> <<>>]
  /\ frameHash = [digest |-> <<>>]
  /\ frameAggregated = <<>>

RecordsIdle ==
  /\ recPc = "idle"
  /\ recBuffer = <<>>
  /\ recResult = [header |-> <<>>, records |-> <<>>]

LoadIdle ==
  /\ loadPc = "idle"
  /\ designFile = [kind |-> "none"]
  /\ decoded = Undefined
  /\ loaded = Undefined
  /\ pinQuery = Undefined
  /\ pinResult = Undefined
  /\ netQuery = Undefined
  /\ netResult = Undefined

\* ------------------------------------------------------------------------
\* The models and arguments the traversal is run on
\* ------------------------------------------------------------------------

\* Largest number of connected pins of a symmetric model.
MaxConn ==
  4

\* Largest number of connected pins of a model that is then made asymmetric
\* by one defect.
MaxAsymConn ==
  2

NetA == <<"A">>
NetB == <<"B">>
Rail == <<"+","5">>
R1 == <<"R","1">>
R01 == <<"R","0","1">>
U1 == <<"U","1">>
P1 == <<"1">>
P2 == <<"2">>

TravNets ==
  << NetA, NetB, Rail >>

TravRefdes ==
  << R1, R01, U1 >>

TravPins ==
  << P1, P2 >>

Slots ==
  (1..Len(TravRefdes)) \X (1..Len(TravPins))

\* A triple <<k, r, p>>: pin TravPins[p] of TravRefdes[r] on net TravNets[k].
AllTriples ==
  (1..Len(TravNets)) \X (1..Len(TravRefdes)) \X (1..Len(TravPins))

\* g[slot] = 0: the pin does not exist; g[slot] = k: it is on TravNets[k].
ConnChoices(max) ==
  { g \in [Slots -> 0..Len(TravNets)] : Cardinality({ s \in Slots : g[s] # 0 }) <= max }

TriplesOf(g) ==
  { t \in AllTriples : g[<<t[2], t[3]>>] = t[1] }

\* The selected indices of 1..n, in ascending order, as a sequence.
RECURSIVE Ascending(_, _)
Ascending(set, n) ==
  IF n = 0 THEN <<>>
  ELSE IF n \in set THEN Append(Ascending(set, n - 1), n) ELSE Ascending(set, n - 1)

\* N with the triples T: nets, components on a net and pins in model order.
BuildNets(T) ==
  LET netIdx == Ascending({ t[1] : t \in T }, Len(TravNets))
      RefsOn(k) == Ascending({ t[2] : t \in { u \in T : u[1] = k } }, Len(TravRefdes))
      PinsOn(k, r) ==
        Ascending({ t[3] : t \in { u \in T : u[1] = k /\ u[2] = r } }, Len(TravPins))
  IN  [i \in 1..Len(netIdx) |->
         << TravNets[netIdx[i]],
            [j \in 1..Len(RefsOn(netIdx[i])) |->
               << TravRefdes[RefsOn(netIdx[i])[j]],
                  [m \in 1..Len(PinsOn(netIdx[i], RefsOn(netIdx[i])[j])) |->
                     TravPins[PinsOn(netIdx[i], RefsOn(netIdx[i])[j])[m]]] >>] >>]

Mpn10k == <<"1","0","k">>
MpnIC == <<"I","C">>
MpnDnp == <<"D","N","P">>

\* C with the pins of g, without the component numbered `without`; the
\* component numbered dnsRef carries a DNS marker as its part number.
BuildComponents(g, without, dnsRef) ==
  LET refIdx == Ascending({ r \in 1..Len(TravRefdes) :
                             r # without /\ \E p \in 1..Len(TravPins) : g[<<r, p>>] # 0 },
                          Len(TravRefdes))
      PinsOf(r) == Ascending({ p \in 1..Len(TravPins) : g[<<r, p>>] # 0 }, Len(TravPins))
  IN  [i \in 1..Len(refIdx) |->
         << TravRefdes[refIdx[i]],
            [mpn |-> IF refIdx[i] = dnsRef THEN MpnDnp
                     ELSE IF isPassive(TravRefdes[refIdx[i]]) THEN Mpn10k ELSE MpnIC,
             description |-> Undefined,
             pins |-> [m \in 1..Len(PinsOf(refIdx[i])) |->
                         << TravPins[PinsOf(refIdx[i])[m]],
                            [name |-> Undefined,
                             net |-> TravNets[g[<<refIdx[i], PinsOf(refIdx[i])[m]>>]]] >>]] >>]

\* The option variants: defaults, a skip type (given in lower case and with
\* blanks), a blank skip type before it, DNS included, each with and without
\* a DNS-marked component.
Variants ==
  { [skipTypes |-> <<>>, includeDns |-> FALSE, dnsRef |-> 0],
    [skipTypes |-> << <<" ","u">> >>, includeDns |-> FALSE, dnsRef |-> 0],
    [skipTypes |-> << <<" ">>, <<"u">> >>, includeDns |-> FALSE, dnsRef |-> 0],
    [skipTypes |-> <<>>, includeDns |-> FALSE, dnsRef |-> 2],
    [skipTypes |-> <<>>, includeDns |-> TRUE, dnsRef |-> 2] }

\* One defect of an asymmetric model: a triple of N without its pin in C (or
\* a pin on two nets), a pin of C missing in N, or a component missing in C.
Defects(g) ==
  { [kind |-> "addTriple", t |-> t, r |-> 0] : t \in AllTriples \ TriplesOf(g) }
    \cup { [kind |-> "dropTriple", t |-> t, r |-> 0] : t \in TriplesOf(g) }
    \cup { [kind |-> "dropComp", t |-> <<0, 0, 0>>, r |-> r] :
             r \in { q \in 1..Len(TravRefdes) : \E p \in 1..Len(TravPins) : g[<<q, p>>] # 0 } }

DefectTriples(g, d) ==
  CASE d.kind = "addTriple" -> TriplesOf(g) \cup {d.t}
    [] d.kind = "dropTriple" -> TriplesOf(g) \ {d.t}
    [] OTHER -> TriplesOf(g)

IdleLocals ==
  /\ visitedNets = <<>>
  /\ visitedPins = {}
  /\ queue = <<>>
  /\ flatCircuit = <<>>
  /\ skipped = <<>>
  /\ skippedComponents = {}
  /\ expanded = <<>>
  /\ reachedVia = {}

TraversalIdle ==
  /\ pc = "idle"
  /\ nets = <<>>
  /\ components = <<>>
  /\ startNet = <<>>
  /\ options = [skipTypes |-> <<>>, includeDns |-> FALSE]
  /\ IdleLocals
  /\ result = [components |-> <<>>, visited_nets |-> <<>>, skipped |-> <<>>]

InitSymmetric ==
  \E g \in ConnChoices(MaxConn), v \in Variants :
    /\ nets = BuildNets(TriplesOf(g))
    /\ components = BuildComponents(g, 0, v.dnsRef)
    /\ options = [skipTypes |-> v.skipTypes, includeDns |-> v.includeDns]

\* The asymmetric models are traversed with the default options.
InitAsymmetric ==
  \E g \in ConnChoices(MaxAsymConn) : \E d \in Defects(g) :
    /\ nets = BuildNets(DefectTriples(g, d))
    /\ components = BuildComponents(g, d.r, 0)
    /\ options = [skipTypes |-> <<>>, includeDns |-> FALSE]

Init ==
  /\ pc = "call"
  /\ InitSymmetric \/ InitAsymmetric
  /\ startNet \in RangeOf(TravNets)
  /\ IdleLocals
  /\ result = [components |-> <<>>, visited_nets |-> <<>>, skipped |-> <<>>]
  /\ HashIdle
  /\ LoadIdle
  /\ OleIdle
  /\ RecordsIdle
  /\ FrameIdle
  /\ RequestsIdle
  /\ SortIdle
  /\ DiscoveryIdle
  /\ ConnectivityIdle
  /\ ProjectIdle
  /\ HierarchyIdle

\* ------------------------------------------------------------------------
\* traverseCircuitFromNet, one action per step
\* ------------------------------------------------------------------------

TravState ==
  [visitedNets |-> visitedNets, visitedPins |-> visitedPins, queue |-> queue,
   flatCircuit |-> flatCircuit, skipped |-> skipped,
   skippedComponents |-> skippedComponents,
   expanded |-> expanded, reachedVia |-> reachedVia]

SetLocals(st) ==
  /\ visitedNets' = st.visitedNets
  /\ visitedPins' = st.visitedPins
  /\ queue' = st.queue
  /\ flatCircuit' = st.flatCircuit
  /\ skipped' = st.skipped
  /\ skippedComponents' = st.skippedComponents
  /\ expanded' = st.expanded
  /\ reachedVia' = st.reachedVia

\* Lines 265-267: the start net is empty or unknown.
ReturnEmpty ==
  /\ pc = "call"
  /\ startNet = <<>> \/ ~HasKey(nets, startNet)
  /\ result' = EmptyTraversalResult
  /\ pc' = "done"
  /\ UNCHANGED << nets, components, startNet, options, travLocals, exceptTravVars >>

\* Lines 269-301.
Begin ==
  /\ pc = "call"
  /\ ~(startNet = <<>> \/ ~HasKey(nets, startNet))
  /\ SetLocals(InitialTraversalState(startNet))
  /\ pc' = "loop"
  /\ UNCHANGED << nets, components, startNet, options, result, exceptTravVars >>

\* Lines 303-405, one iteration.
Expand ==
  /\ pc = "loop"
  /\ Len(queue) > 0
  /\ SetLocals(ExpandNet(TraversalEnv(nets, components, options), TravState))
  /\ UNCHANGED << pc, nets, components, startNet, options, result, exceptTravVars >>

\* Line 407.
Finish ==
  /\ pc = "loop"
  /\ Len(queue) = 0
  /\ result' = groupCircuitPins(flatCircuit, visitedNets, skipped)
  /\ pc' = "done"
  /\ UNCHANGED << nets, components, startNet, options, travLocals, exceptTravVars >>

Next ==
  \/ ReturnEmpty
  \/ Begin
  \/ Expand
  \/ Finish

Spec ==
  Init /\ [][Next]_vars


\* ------------------------------------------------------------------------
\* Properties of traverseCircuitFromNet
\* ------------------------------------------------------------------------

\* The environment of the call in progress.
Env ==
  TraversalEnv(nets, components, options)

\* The decision of shouldSkipComponent for a refdes of the call in progress.
IsSkipped(refdes) ==
  shouldSkipComponent(Env, InitialTraversalState(startNet), refdes,
                      isDnsComponent(HasComp(Env, refdes), CompOf(Env, refdes))).skip

\* The nets the pins of C[refdes] carry.
PinNetsOf(comps, refdes) ==
  IF HasKey(comps, refdes)
  THEN { getPinNet(Get(comps, refdes).pins[j][2]) : j \in 1..Len(Get(comps, refdes).pins) }
  ELSE {}

\* The positions <<component, connection, pin>> of a TraversalResult.
ResultPositions(res) ==
  UNION { UNION { { <<k, c, m>> : m \in 1..Len(res.components[k].connections[c].pins) } :
                  c \in 1..Len(res.components[k].connections) } :
          k \in 1..Len(res.components) }

\* The <<refdes, pin, net>> a position of a TraversalResult reports.
ReportedAt(res, p) ==
  << res.components[p[1]].refdes,
     res.components[p[1]].connections[p[2]].pins[p[3]],
     res.components[p[1]].connections[p[2]].net >>

ResultPins(res) ==
  { ReportedAt(res, p) : p \in ResultPositions(res) }

\* Forward and converse agreement of N and C.
IsSymmetric(N, C) ==
  /\ \A i \in 1..Len(N) : \A j \in 1..Len(N[i][2]) : \A m \in 1..Len(N[i][2][j][2]) :
       /\ HasKey(C, N[i][2][j][1])
       /\ HasKey(Get(C, N[i][2][j][1]).pins, N[i][2][j][2][m])
       /\ getPinNet(Get(Get(C, N[i][2][j][1]).pins, N[i][2][j][2][m])) = N[i][1]
  /\ \A i \in 1..Len(C) : \A j \in 1..Len(C[i][2].pins) :
       LET n == getPinNet(C[i][2].pins[j][2])
       IN  /\ HasKey(N, n)
           /\ HasKey(Get(N, n), C[i][1])
           /\ InSeq(C[i][2].pins[j][1], Get(Get(N, n), C[i][1]))

\* C1 as claimed: no net of visited_nets that is a stop net, the start net
\* included, is a net through which another net of visited_nets is reached.
C1_NoNetReachedThroughAnyStopNet ==
  \A n \in RangeOf(visitedNets) :
    isStopNet(n) => \A r \in reachedVia : r.from # n

\* C1: every stop net of visited_nets other than the start net is never
\* dequeued, never enqueued, and no net of visited_nets is reached through
\* it.  (The start net is always expanded, also when it is a stop net.)
C1_StopNetBoundedness ==
  \A n \in RangeOf(visitedNets) :
    (isStopNet(n) /\ n # startNet) =>
      /\ ~InSeq(n, expanded)
      /\ ~InSeq(n, queue)
      /\ \A r \in reachedVia : r.from # n

\* A finished traversal that reached a stop net on which a further
\* non-skipped passive leads to a net that stayed unvisited.
C1_Witness ==
  /\ pc = "done"
  /\ \E r \in reachedVia :
       /\ isStopNet(r.net)
       /\ InSeq(r.net, result.visited_nets)
       /\ \E i \in 1..Len(NetConns(Env, r.net)) :
            LET other == NetConns(Env, r.net)[i][1]
            IN  /\ other # r.refdes
                /\ isPassive(other)
                /\ ~IsSkipped(other)
                /\ \E n \in PinNetsOf(components, other) : ~InSeq(n, result.visited_nets)

\* C2 as claimed: when a stop net is reached through a passive component it
\* is added to visited_nets, is not expanded, and every pin that another
\* non-skipped component has on it is reported with that net.
C2_OtherPinsOnStopNetReported ==
  pc = "done" =>
    \A r \in reachedVia :
      isStopNet(r.net) =>
        /\ InSeq(r.net, result.visited_nets)
        /\ ~InSeq(r.net, expanded)
        /\ \A i \in 1..Len(NetConns(Env, r.net)) :
             LET other == NetConns(Env, r.net)[i][1]
                 pins == NetConns(Env, r.net)[i][2]
             IN  (other # r.refdes /\ ~IsSkipped(other)) =>
                   \A m \in 1..Len(pins) :
                     << other, pins[m], r.net >> \in ResultPins(result)

\* C2: when a stop net is reached through a passive component it is added
\* to visited_nets and is neither enqueued nor expanded, and the only pins
\* reported with that net belong to passive components followed from an
\* expanded net; the components that are merely on the stop net are not
\* inspected.
C2_StopNetReachedNotInspected ==
  \A r \in reachedVia :
    isStopNet(r.net) =>
      /\ InSeq(r.net, visitedNets)
      /\ ~InSeq(r.net, queue)
      /\ ~InSeq(r.net, expanded)
      /\ \A e \in RangeOf(flatCircuit) :
           e.net = r.net =>
             /\ FollowsThrough(Env, e.refdes)
             /\ \E x \in RangeOf(expanded) : HasKey(NetConns(Env, x), e.refdes)
      /\ pc = "done" =>
           \A t \in ResultPins(result) :
             t[3] = r.net =>
               \E x \in RangeOf(expanded) : HasKey(NetConns(Env, x), t[1])

\* A finished traversal that reached a stop net carrying a non-skipped
\* active component that is on no expanded net.
C2_Witness ==
  /\ pc = "done"
  /\ \E r \in reachedVia :
       /\ isStopNet(r.net)
       /\ \E i \in 1..Len(NetConns(Env, r.net)) :
            LET other == NetConns(Env, r.net)[i][1]
            IN  /\ ~isPassive(other)
                /\ ~IsSkipped(other)
                /\ HasComp(Env, other)
                /\ \A x \in RangeOf(expanded) : ~HasKey(NetConns(Env, x), other)

\* C3: in the result, for any model (symmetric or not) and any options,
\* each (refdes, pin) pair occurs at most once over all connections of all
\* components.
C3_PinVisitUniqueness ==
  pc = "done" =>
    \A p, q \in ResultPositions(result) :
      p # q =>
        << ReportedAt(result, p)[1], ReportedAt(result, p)[2] >>
          # << ReportedAt(result, q)[1], ReportedAt(result, q)[2] >>

\* A finished traversal of a model in which N lists one pin under two nets
\* that were both expanded, the pin being reported.
C3_Witness ==
  /\ pc = "done"
  /\ \E x, y \in RangeOf(expanded) :
       /\ x # y
       /\ \E i \in 1..Len(NetConns(Env, x)) :
            LET refdes == NetConns(Env, x)[i][1]
            IN  /\ ~IsSkipped(refdes)
                /\ HasKey(NetConns(Env, y), refdes)
                /\ \E pin \in RangeOf(NetConns(Env, x)[i][2]) :
                     /\ InSeq(pin, Get(NetConns(Env, y), refdes))
                     /\ \E t \in ResultPins(result) : t[1] = refdes /\ t[2] = pin

\* C4: every net of visited_nets other than the start net is the embedded
\* net of a pin of a non-skipped passive component that has a pin on an
\* expanded net; a net reachable only through an active component is never
\* added.
C4_NeverThroughActive ==
  \A n \in RangeOf(visitedNets) :
    n # startNet =>
      \E i \in 1..Len(components) :
        LET refdes == components[i][1]
        IN  /\ isPassive(refdes)
            /\ ~IsSkipped(refdes)
            /\ n \in PinNetsOf(components, refdes)
            /\ \E x \in RangeOf(expanded) : HasKey(NetConns(Env, x), refdes)

\* A finished traversal whose start net carries a non-skipped active
\* component with a pin on a net that stayed unvisited, in a result that
\* did reach another net.
C4_Witness ==
  /\ pc = "done"
  /\ Len(result.visited_nets) >= 2
  /\ \E i \in 1..Len(NetConns(Env, startNet)) :
       LET refdes == NetConns(Env, startNet)[i][1]
       IN  /\ ~isPassive(refdes)
           /\ ~IsSkipped(refdes)
           /\ \E t \in ResultPins(result) : t[1] = refdes
           /\ \E n \in PinNetsOf(components, refdes) : ~InSeq(n, result.visited_nets)


\* The non-skipped passive components with a record that are on a net of S
\* that is expanded when reached (the start net or a non-stop net).
PassivesOn(S) ==
  { refdes \in RangeOf(Keys(components)) :
      /\ isPassive(refdes)
      /\ ~IsSkipped(refdes)
      /\ \E n \in S : /\ n = startNet \/ ~isStopNet(n)
                      /\ HasKey(NetConns(Env, n), refdes) }

\* The nets reachable from S by chains of such passives, computed from N and
\* C alone.
RECURSIVE PassiveReach(_)
PassiveReach(S) ==
  LET T == S \cup UNION { PinNetsOf(components, refdes) : refdes \in PassivesOn(S) }
  IN  IF T = S THEN S ELSE PassiveReach(T)

\* C5: for a symmetric model and a start net present in N, visited_nets
\* contains every net reachable from the start net by a chain of non-skipped
\* passives whose nets, the last excepted, are the start net or non-stop
\* nets, and every passive of such a chain is reported with all its pins.
C5_XnetReachCompleteness ==
  (pc = "done" /\ IsSymmetric(nets, components) /\ HasKey(nets, startNet)) =>
    /\ PassiveReach({startNet}) \subseteq RangeOf(result.visited_nets)
    /\ \A refdes \in PassivesOn(PassiveReach({startNet})) :
         \A j \in 1..Len(Get(components, refdes).pins) :
           << refdes, Get(components, refdes).pins[j][1],
              getPinNet(Get(components, refdes).pins[j][2]) >> \in ResultPins(result)

\* A finished traversal of a symmetric model whose start net reaches two
\* further nets through a chain of two passives.
C5_Witness ==
  /\ pc = "done"
  /\ IsSymmetric(nets, components)
  /\ HasKey(nets, startNet)
  /\ Cardinality(PassiveReach({startNet})) >= 3
  /\ Cardinality(PassivesOn(PassiveReach({startNet}))) >= 2
  /\ \E r \in reachedVia : r.from # startNet


\* C6 as claimed: for a symmetric model and two non-stop nets of one XNET,
\* the traversals from the two nets report the same components with the
\* same pins, and computeCircuitHash gives both the same circuit_hash.
C6_StartPointIndependence ==
  (pc = "done" /\ IsSymmetric(nets, components) /\ HasKey(nets, startNet)
     /\ ~isStopNet(startNet)) =>
    \A s2 \in PassiveReach({startNet}) :
      ~isStopNet(s2) =>
        LET other == traverseCircuitFromNet(s2, nets, components, options)
        IN  /\ ResultPins(other) = ResultPins(result)
            /\ computeCircuitHash(other.components) = computeCircuitHash(result.components)


\* ------------------------------------------------------------------------
\* computeCircuitHash on two orderings of one component set
\* ------------------------------------------------------------------------

\* Largest number of components of a hashed list.
MaxHashComps ==
  2

R2 == <<"R","2">>
U10 == <<"U","1","0">>
P01 == <<"0","1">>

HashRefdes ==
  << R1, R01, R2, U10 >>

\* The connection lists a hashed component may carry.
HashConnections ==
  { << [net |-> NetA, pins |-> << P1 >>] >>,
    << [net |-> NetA, pins |-> << P1 >>], [net |-> NetB, pins |-> << P2 >>] >>,
    << [net |-> Rail, pins |-> << P1, P2 >>] >>,
    << [net |-> NetB, pins |-> << P1, P01 >>] >> }

\* The orderings of a sequence.
Orderings(seq) ==
  { [i \in 1..Len(seq) |-> seq[p[i]]] :
      p \in { q \in [1..Len(seq) -> 1..Len(seq)] :
                \A i, j \in 1..Len(seq) : i # j => q[i] # q[j] } }

\* The component lists that hold the components of comps in any order, each
\* with its connections in any order and the pins of each connection in any
\* order.
RECURSIVE ReorderedConnections(_)
ReorderedConnections(conns) ==
  IF Len(conns) = 0 THEN { <<>> }
  ELSE { << [net |-> conns[1].net, pins |-> ps] >> \o rest :
           ps \in Orderings(conns[1].pins), rest \in ReorderedConnections(Tail(conns)) }

RECURSIVE ReorderedInside(_)
ReorderedInside(comps) ==
  IF Len(comps) = 0 THEN { <<>> }
  ELSE { << [comps[1] EXCEPT !.connections = cs] >> \o rest :
           cs \in UNION { Orderings(c) : c \in ReorderedConnections(comps[1].connections) },
           rest \in ReorderedInside(Tail(comps)) }

Reorderings(comps) ==
  UNION { Orderings(c) : c \in ReorderedInside(comps) }

\* The component lists of up to MaxHashComps components with pairwise
\* distinct refdes, in the order of HashRefdes.
RECURSIVE HashLists(_, _)
HashLists(from, room) ==
  IF from > Len(HashRefdes) \/ room = 0 THEN { <<>> }
  ELSE HashLists(from + 1, room)
         \cup { << [refdes |-> HashRefdes[from], mpn |-> Mpn10k, description |-> Undefined,
                    dns |-> FALSE, connections |-> cs] >> \o rest :
                  cs \in HashConnections, rest \in HashLists(from + 1, room - 1) }

InitHash ==
  /\ hashPc = "first"
  /\ hashComponents \in HashLists(1, MaxHashComps)
  /\ hashReordered \in Reorderings(hashComponents)
  /\ hashFirst = [digest |-> <<>>]
  /\ hashSecond = [digest |-> <<>>]
  /\ TraversalIdle
  /\ LoadIdle
  /\ OleIdle
  /\ RecordsIdle
  /\ FrameIdle
  /\ RequestsIdle
  /\ SortIdle
  /\ DiscoveryIdle
  /\ ConnectivityIdle
  /\ ProjectIdle
  /\ HierarchyIdle

\* computeCircuitHash of the first ordering.
HashFirstOrdering ==
  /\ hashPc = "first"
  /\ hashFirst' = computeCircuitHash(hashComponents)
  /\ hashPc' = "second"
  /\ UNCHANGED << hashComponents, hashReordered, hashSecond, exceptHashVars >>

\* computeCircuitHash of the second ordering.
HashSecondOrdering ==
  /\ hashPc = "second"
  /\ hashSecond' = computeCircuitHash(hashReordered)
  /\ hashPc' = "both"
  /\ UNCHANGED << hashComponents, hashReordered, hashFirst, exceptHashVars >>

NextHash ==
  \/ HashFirstOrdering
  \/ HashSecondOrdering

SpecHash ==
  InitHash /\ [][NextHash]_vars

\* C7 as claimed: for components with pairwise distinct refdes,
\* computeCircuitHash returns the same value for any two orderings of the
\* component list, of each component's connections and of the pins of each
\* connection.
C7_OrderDeterminism ==
  hashPc = "both" => hashFirst = hashSecond

\* ------------------------------------------------------------------------
\* Text helpers of the decoders
\* ------------------------------------------------------------------------

EndsWith(s, p) ==
  /\ Len(p) <= Len(s)
  /\ SubSeq(s, Len(s) - Len(p) + 1, Len(s)) = p

\* Position of the first character of s that is one of chars, 0 if none.
FirstIndexOf(s, chars) ==
  IF \E i \in 1..Len(s) : s[i] \in chars
  THEN CHOOSE i \in 1..Len(s) :
         s[i] \in chars /\ \A j \in 1..(i - 1) : s[j] \notin chars
  ELSE 0

\* s.split(c) for a one-character separator c.
RECURSIVE SplitChar(_, _)
SplitChar(s, c) ==
  LET n == FirstIndexOf(s, {c})
  IN  IF n = 0 THEN << s >>
      ELSE << SubSeq(s, 1, n - 1) >> \o SplitChar(DropFirst(s, n), c)

RECURSIVE DropBlanks(_)
DropBlanks(s) ==
  IF Len(s) > 0 /\ IsSpaceChar(s[1]) THEN DropBlanks(Tail(s)) ELSE s

\* s.split(/\s+/)
RECURSIVE SplitBlanks(_)
SplitBlanks(s) ==
  LET n == FirstIndexOf(s, {" "})
  IN  IF n = 0 THEN << s >>
      ELSE << SubSeq(s, 1, n - 1) >> \o SplitBlanks(DropBlanks(DropFirst(s, n - 1)))

\* parts.join(sep)
RECURSIVE Join(_, _)
Join(parts, sep) ==
  IF Len(parts) = 0 THEN <<>>
  ELSE IF Len(parts) = 1 THEN parts[1]
  ELSE parts[1] \o sep \o Join(Tail(parts), sep)

\* String(n) of a natural number.
RECURSIVE IntToString(_)
IntToString(n) ==
  IF n < 10 THEN << DigitChars[n + 1] >>
  ELSE IntToString(n \div 10) \o << DigitChars[(n % 10) + 1] >>

\* A value that is neither undefined, null nor the empty string.
Truthy(x) ==
  x # Undefined /\ x # Null /\ x # <<>>

\* compactArray (types.ts)
compactArray(arr) ==
  IF Len(arr) = 1 THEN arr[1] ELSE arr

\* ------------------------------------------------------------------------
\* Cadence decoder: pstxnet-parser.ts, pstxprt-parser.ts, cadence/index.ts
\*
\* A file is the sequence of its lines (content.split('\n')), each a string.
\* ------------------------------------------------------------------------

\* saveCurrentNet, lines 30-36: the pins of the section by refdes.
RECURSIVE NetDict(_, _, _)
NetDict(currentPins, i, netDict) ==
  IF i > Len(currentPins) THEN netDict
  ELSE LET refdes == currentPins[i][1]
           sofar == IF HasKey(netDict, refdes) THEN Get(netDict, refdes) ELSE <<>>
       IN  NetDict(currentPins, i + 1,
                   Put(netDict, refdes, Append(sofar, currentPins[i][2])))

saveCurrentNet(ps) ==
  IF ps.currentNet # Null
  THEN [ps EXCEPT !.netConnections =
                    Put(@, ps.currentNet, NetDict(ps.currentPins, 1, <<>>))]
  ELSE ps

\* The body of the loop at lines 41-56, for one trimmed line.
PstxnetLine(ps, line) ==
  IF line = <<"N","E","T","_","N","A","M","E">>
  THEN [saveCurrentNet(ps) EXCEPT !.currentNet = Null, !.currentPins = <<>>]
  ELSE IF ps.currentNet = Null /\ StartsWith(line, <<"'">>) /\ EndsWith(line, <<"'">>)
  THEN [ps EXCEPT !.currentNet = SubSeq(line, 2, Len(line) - 1)]
  ELSE IF StartsWith(line, <<"N","O","D","E","_","N","A","M","E">>)
  THEN LET parts == SplitBlanks(line)
       IN  IF Len(parts) >= 3
           THEN [ps EXCEPT !.currentPins = Append(@, << parts[2], parts[3] >>)]
           ELSE ps
  ELSE ps

RECURSIVE PstxnetLines(_, _, _)
PstxnetLines(lines, i, ps) ==
  IF i > Len(lines) THEN ps
  ELSE PstxnetLines(lines, i + 1, PstxnetLine(ps, Trim(lines[i])))

parsePstxnetContent(lines) ==
  saveCurrentNet(PstxnetLines(lines, 1,
    [netConnections |-> <<>>, currentNet |-> Null, currentPins |-> <<>>])).netConnections

\* /^(\S+)\s+'([^']+)'/ on a trimmed line.
MatchComponentLine(line) ==
  LET n == FirstIndexOf(line, {" "})
      rest == IF n = 0 THEN <<>> ELSE DropBlanks(DropFirst(line, n - 1))
      body == IF Len(rest) > 0 /\ rest[1] = "'" THEN Tail(rest) ELSE <<>>
      q == FirstIndexOf(body, {"'"})
  IN  IF n > 1 /\ Len(rest) > 0 /\ rest[1] = "'" /\ q > 1
      THEN [matched |-> TRUE, refdes |-> SubSeq(line, 1, n - 1),
            partName |-> SubSeq(body, 1, q - 1)]
      ELSE [matched |-> FALSE, refdes |-> <<>>, partName |-> <<>>]

RECURSIVE StripTrailing(_, _)
StripTrailing(v, chars) ==
  IF Len(v) > 0 /\ v[Len(v)] \in chars
  THEN StripTrailing(SubSeq(v, 1, Len(v) - 1), chars)
  ELSE v

\* .replace(/^['"]|['";,]+$/g, '')
StripValue(v) ==
  LET a == IF Len(v) > 0 /\ v[1] \in {"'", "\""} THEN Tail(v) ELSE v
  IN  StripTrailing(a, {"'", "\"", ";", ","})

\* saveCurrentComponent, lines 40-60.
saveCurrentComponent(ps) ==
  IF ps.currentRefdes # Null
  THEN LET mfgr == Get(ps.currentProperties, <<"M","F","G","R","_","P","N">>)
           mpn == IF Truthy(mfgr) THEN mfgr
                  ELSE IF Truthy(ps.currentPartName) THEN ps.currentPartName
                  ELSE Null
           description == Get(ps.currentProperties, <<"D","E","S","C","R">>)
           component == [mpn |-> mpn,
                         description |-> IF Truthy(description) THEN description
                                         ELSE Undefined,
                         pins |-> <<>>]
       IN  [ps EXCEPT
              !.componentDetails = Put(@, ps.currentRefdes, component),
              !.partNames = IF Truthy(ps.currentPartName)
                            THEN MapSet(@, ps.currentRefdes, ps.currentPartName)
                            ELSE @]
  ELSE ps

\* The body of the loop at lines 62-89, for one trimmed line.
\* Lines 72-80.
ComponentLine(ps, line, m) ==
  IF m.matched
  THEN [ps EXCEPT !.currentRefdes = m.refdes, !.currentPartName = m.partName]
  ELSE [ps EXCEPT !.currentRefdes = SplitChar(line, " ")[1]]

PstxprtLine(ps, line) ==
  IF line = <<"P","A","R","T","_","N","A","M","E">>
  THEN [saveCurrentComponent(ps) EXCEPT !.currentRefdes = Null,
                                        !.currentPartName = Null,
                                        !.currentProperties = <<>>]
  ELSE IF ps.currentRefdes = Null /\ line # <<>>
  THEN IF " " \in RangeOf(line) /\ (EndsWith(line, <<":">>) \/ EndsWith(line, <<":",";">>))
       THEN ComponentLine(ps, line, MatchComponentLine(line))
       ELSE ps
  ELSE IF "=" \in RangeOf(line)
  THEN LET parts == SplitChar(line, "=")
           value == StripValue(Trim(Join(Tail(parts), <<"=">>)))
       IN  [ps EXCEPT !.currentProperties = Put(@, Trim(parts[1]), value)]
  ELSE ps

RECURSIVE PstxprtLines(_, _, _)
PstxprtLines(lines, i, ps) ==
  IF i > Len(lines) THEN ps
  ELSE PstxprtLines(lines, i + 1, PstxprtLine(ps, Trim(lines[i])))

\* Returns [components, partNames].
\* Line 93.
PartsOf(ps) ==
  [components |-> ps.componentDetails, partNames |-> ps.partNames]

parsePstxprtContent(lines) ==
  PartsOf(saveCurrentComponent(PstxprtLines(lines, 1,
            [componentDetails |-> <<>>, partNames |-> <<>>, currentRefdes |-> Null,
             currentPartName |-> Null, currentProperties |-> <<>>])))

\* A chip of pstchip.dat is [part_name, pins], pins from pin name to pin
\* number; its body properties are left out, and with them the value field.
RECURSIVE ChipPinMap(_, _, _)
ChipPinMap(pins, i, pinMap) ==
  IF i > Len(pins) THEN pinMap
  ELSE ChipPinMap(pins, i + 1,
                  IF Truthy(pins[i][2]) THEN MapSet(pinMap, pins[i][2], pins[i][1])
                  ELSE pinMap)

RECURSIVE buildPinNameMaps(_, _, _)
buildPinNameMaps(chips, i, pinNameMaps) ==
  IF i > Len(chips) THEN pinNameMaps
  ELSE buildPinNameMaps(chips, i + 1,
         MapSet(pinNameMaps, chips[i].part_name, ChipPinMap(chips[i].pins, 1, <<>>)))

\* The (netName, refdes, pin) triples of nets in the order the nested loops
\* over Object.entries visit them.
RECURSIVE PinsFlat(_, _, _)
PinsFlat(netName, refdes, pins) ==
  IF Len(pins) = 0 THEN <<>>
  ELSE << << netName, refdes, pins[1] >> >> \o PinsFlat(netName, refdes, Tail(pins))

RECURSIVE ConnsFlat(_, _)
ConnsFlat(netName, conns) ==
  IF Len(conns) = 0 THEN <<>>
  ELSE PinsFlat(netName, conns[1][1], conns[1][2]) \o ConnsFlat(netName, Tail(conns))

RECURSIVE NetsFlat(_)
NetsFlat(N) ==
  IF Len(N) = 0 THEN <<>>
  ELSE ConnsFlat(N[1][1], N[1][2]) \o NetsFlat(Tail(N))

\* The refdes is kept when it is a valid one (line 112).
KeepsRefdes(refdes) ==
  isValidRefdes(refdes)

\* Lines 110-135 for one pin of one net.
CadencePin(comps, netName, refdes, pin, pinNameMaps, partNames) ==
  IF ~KeepsRefdes(refdes) THEN comps
  ELSE LET base == IF HasKey(comps, refdes) THEN comps
                   ELSE Put(comps, refdes,
                            [mpn |-> Undefined, description |-> Undefined, pins |-> <<>>])
           component == Get(base, refdes)
           partName == Get(partNames, refdes)
           pinName == IF Truthy(partName) /\ HasKey(pinNameMaps, partName)
                      THEN Get(Get(pinNameMaps, partName), pin)
                      ELSE Undefined
       IN  Put(base, refdes,
               [component EXCEPT !.pins = Put(@, pin, createPinEntry(pin, pinName, netName))])

RECURSIVE CadencePins(_, _, _, _, _)
CadencePins(comps, flat, i, pinNameMaps, partNames) ==
  IF i > Len(flat) THEN comps
  ELSE CadencePins(CadencePin(comps, flat[i][1], flat[i][2], flat[i][3],
                              pinNameMaps, partNames),
                   flat, i + 1, pinNameMaps, partNames)

\* Returns the components with their pins filled in; nets is left as it is.
buildCadencePinMap(N, comps, chips, partNames) ==
  CadencePins(comps, NetsFlat(N), 1, buildPinNameMaps(chips, 1, <<>>), partNames)

\* A Cadence design is [kind, datFiles, pstxnet, pstxprt, pstchip], datFiles
\* telling whether its three files were found.  Returns [nets, components] or
\* throws.
\* Lines 183-196.
CadenceNetlist(N, prt, chips) ==
  [nets |-> N,
   components |-> buildCadencePinMap(N, prt.components, chips, prt.partNames)]

parseCadenceDesign(design) ==
  IF ~design.datFiles
  THEN Throw(<<"M","i","s","s","i","n","g"," ","n","e","t","l","i","s","t"," ","f","i","l","e","s">>)
  ELSE CadenceNetlist(parsePstxnetContent(design.pstxnet),
                      parsePstxprtContent(design.pstxprt), design.pstchip)

\* ------------------------------------------------------------------------
\* Altium decoder: altium/index.ts, the hierarchy functions and the net
\* extractor.
\*
\* A record is [RECORD, OwnerIndex, Text, Designator, Name, PartNumber,
\* CurrentPartId, OwnerPartId, DESIGNATOR], an absent field being Undefined; its index is
\* its position in the record list, counted from 0.  A hierarchy is
\* [records, roots, children]: the records, the indices of the root records
\* and, for every record, the indices of its children, both in list order.
\* A sheet is [records, groups]: groups is what findAllConnectedComponents
\* returns for the sheet, each group a list of device indices.
\* ------------------------------------------------------------------------

COMPONENT ==
  "1"

PIN ==
  "2"

NET_LABEL ==
  "25"

POWER_PORT ==
  "17"

DESIGNATOR ==
  "34"

Present(x) ==
  x # Undefined /\ x # Null /\ x # <<>>

\* The owner of the record at position k, when it names a record of the list.
HasOwner(records, k) ==
  /\ Present(records[k].OwnerIndex)
  /\ ParseInt(records[k].OwnerIndex) < Len(records)

SelectIndices(records, Keep(_)) ==
  LET RECURSIVE Sel(_)
      Sel(k) == IF k > Len(records) THEN <<>>
                ELSE (IF Keep(k) THEN << k - 1 >> ELSE <<>>) \o Sel(k + 1)
  IN  Sel(1)

buildHierarchy(records) ==
  [records |-> records,
   roots |-> SelectIndices(records, LAMBDA k : ~HasOwner(records, k)),
   children |->
     [o \in 1..Len(records) |->
        SelectIndices(records,
                      LAMBDA k : HasOwner(records, k)
                                   /\ ParseInt(records[k].OwnerIndex) = o - 1)]]

RecordAt(h, index) ==
  h.records[index + 1]

ChildrenOf(h, index) ==
  h.children[index + 1]

getPartsList(h) ==
  SelectSeq(h.roots, LAMBDA r : RecordAt(h, r).RECORD = COMPONENT)

\* The depth-first search of findRecordByIndex over a list of records:
\* << index >> when the record is found, << >> when it is not.
RECURSIVE SearchRecords(_, _, _)
SearchRecords(h, list, index) ==
  IF Len(list) = 0 THEN <<>>
  ELSE IF list[1] = index THEN << index >>
  ELSE LET found == SearchRecords(h, ChildrenOf(h, list[1]), index)
       IN  IF Len(found) > 0 THEN found
           ELSE SearchRecords(h, Tail(list), index)

findRecordByIndex(h, index) ==
  SearchRecords(h, h.roots, index)

\* Text ?? Name of a designator record.
DesignatorText(rec) ==
  IF rec.Text # Undefined THEN rec.Text ELSE rec.Name

\* altium/index.ts, lines 63-98.
getDesignatorFromPin(h, pin) ==
  IF ~Present(pin.OwnerIndex) THEN Null
  ELSE LET parent == findRecordByIndex(h, ParseInt(pin.OwnerIndex))
           kids == IF Len(parent) = 0 THEN <<>>
                   ELSE SelectSeq(ChildrenOf(h, parent[1]),
                                  LAMBDA c : RecordAt(h, c).RECORD = DESIGNATOR)
       IN  IF Len(kids) > 0 /\ Present(DesignatorText(RecordAt(h, kids[1])))
           THEN DesignatorText(RecordAt(h, kids[1]))
           ELSE Null

\* The same function of the net extractor, lines 206-230: the first
\* designator child that carries a text.
getRefdesForPin(h, pin) ==
  IF ~Present(pin.OwnerIndex) THEN Null
  ELSE LET parent == findRecordByIndex(h, ParseInt(pin.OwnerIndex))
           kids == IF Len(parent) = 0 THEN <<>>
                   ELSE SelectSeq(ChildrenOf(h, parent[1]),
                                  LAMBDA c : /\ RecordAt(h, c).RECORD = DESIGNATOR
                                             /\ Present(DesignatorText(RecordAt(h, c))))
       IN  IF Len(kids) > 0 THEN DesignatorText(RecordAt(h, kids[1])) ELSE Null

\* altium/index.ts, lines 106-131: the pin number in either spelling of the
\* key, then the pin name.
getPinNumber(pin) ==
  IF Present(pin.Designator) THEN pin.Designator
  ELSE IF Present(pin.DESIGNATOR) THEN pin.DESIGNATOR
  ELSE IF Present(pin.Name) THEN pin.Name
  ELSE Null

\* The function of the same name of the net extractor, lines 194-205:
\* device.Designator ?? device.DESIGNATOR looks at the second spelling only
\* when the first is absent, not when it is empty.
getPinNumberOfDevice(device) ==
  IF Present(IF device.Designator \in {Undefined, Null} THEN device.DESIGNATOR
             ELSE device.Designator)
    THEN (IF device.Designator \in {Undefined, Null} THEN device.DESIGNATOR
          ELSE device.Designator)
  ELSE IF Present(device.Name) THEN device.Name
  ELSE Null

getPinName(pin) ==
  IF Present(pin.Name) THEN pin.Name ELSE Undefined

pinMatchesCurrentPart(pin, part) ==
  IF ~Present(part.CurrentPartId) \/ ~Present(pin.OwnerPartId) THEN TRUE
  ELSE part.CurrentPartId = pin.OwnerPartId

\* Net extractor, lines 246-268.
RECURSIVE collectPinCandidates(_, _, _, _)
collectPinCandidates(h, devices, i, refdesPins) ==
  IF i > Len(devices) THEN refdesPins
  ELSE LET device == RecordAt(h, devices[i])
           refdes == getRefdesForPin(h, device)
           pinNumber == getPinNumberOfDevice(device)
           sofar == IF HasKey(refdesPins, refdes) THEN Get(refdesPins, refdes) ELSE <<>>
       IN  collectPinCandidates(h, devices, i + 1,
             IF device.RECORD # PIN \/ ~Present(refdes) \/ ~Present(pinNumber)
             THEN refdesPins
             ELSE MapSet(refdesPins, refdes,
                         IF InSeq(pinNumber, sofar) THEN sofar
                         ELSE Append(sofar, pinNumber)))

\* Net extractor, lines 278-308: the name of a group of devices, Null when
\* none is assigned.
\* Lines 300-307.
PinDerivedName(refdesPins, selectedRefdes) ==
  <<"N","e","t">> \o selectedRefdes \o <<"_">>
    \o Sort(Get(refdesPins, selectedRefdes), "pinNumber")[1]

\* Lines 293-307.
NameFromPins(refdesPins) ==
  IF Len(refdesPins) = 0 THEN Null
  ELSE PinDerivedName(refdesPins, Sort(Keys(refdesPins), "locale")[1])

assignNetName(h, devices) ==
  LET named == SelectSeq(devices,
                 LAMBDA d : /\ RecordAt(h, d).RECORD \in {POWER_PORT, NET_LABEL}
                            /\ Present(RecordAt(h, d).Text))
  IN  IF Len(named) > 0 THEN RecordAt(h, named[1]).Text
      ELSE NameFromPins(collectPinCandidates(h, devices, 1, <<>>))

\* Lines 332-348: one net [name, devices] for every group.
extractNets(h, groups) ==
  [g \in 1..Len(groups) |->
     [name |-> assignNetName(h, groups[g]), devices |-> groups[g]]]

\* altium/index.ts, lines 163-178.
RECURSIVE PinsByComponent(_, _, _, _)
PinsByComponent(h, devices, i, pinsByComponent) ==
  IF i > Len(devices) THEN pinsByComponent
  ELSE LET device == RecordAt(h, devices[i])
           designator == getDesignatorFromPin(h, device)
           pinNumber == getPinNumber(device)
           sofar == IF HasKey(pinsByComponent, designator)
                    THEN Get(pinsByComponent, designator) ELSE <<>>
       IN  PinsByComponent(h, devices, i + 1,
             IF device.RECORD # PIN \/ ~Present(designator) \/ ~Present(pinNumber)
             THEN pinsByComponent
             ELSE Put(pinsByComponent, designator,
                      IF InSeq(pinNumber, sofar) THEN sofar
                      ELSE Append(sofar, pinNumber)))

\* A net of exactly one pin and nothing else is left out (line 153).
IsLonePin(h, net) ==
  /\ Len(SelectSeq(net.devices, LAMBDA d : RecordAt(h, d).RECORD = PIN)) = 1
  /\ \A i \in 1..Len(net.devices) : RecordAt(h, net.devices[i]).RECORD = PIN

\* altium/index.ts, lines 138-187; acc is [result, unnamedNetCounter].
RECURSIVE ConvertNetsFrom(_, _, _, _)
\* Lines 158-183: the net is added under its name when it has pins.
AddNet(acc, net, pinsByComponent) ==
  LET netName == IF net.name # Null THEN net.name
                 ELSE <<"U","n","n","a","m","e","d","N","e","t">> \o IntToString(acc.unnamedNetCounter)
      counter == IF net.name # Null THEN acc.unnamedNetCounter
                 ELSE acc.unnamedNetCounter + 1
  IN  [result |-> IF Len(pinsByComponent) > 0
                  THEN Put(acc.result, netName, pinsByComponent)
                  ELSE acc.result,
       unnamedNetCounter |-> counter]

ConvertNetsFrom(h, altiumNets, i, acc) ==
  IF i > Len(altiumNets) THEN acc
  ELSE ConvertNetsFrom(h, altiumNets, i + 1,
         IF IsLonePin(h, altiumNets[i]) THEN acc
         ELSE AddNet(acc, altiumNets[i],
                     PinsByComponent(h, altiumNets[i].devices, 1, <<>>)))

convertNets(h, altiumNets) ==
  ConvertNetsFrom(h, altiumNets, 1, [result |-> <<>>, unnamedNetCounter |-> 1]).result

\* Lines 376-393: the pins of a part, each with an empty net.
RECURSIVE PartPins(_, _, _, _)
PartPins(h, part, kids, pins) ==
  IF Len(kids) = 0 THEN pins
  ELSE LET child == RecordAt(h, kids[1])
           pinNum == getPinNumber(child)
       IN  PartPins(h, part, Tail(kids),
             IF child.RECORD = PIN /\ pinMatchesCurrentPart(child, part) /\ Present(pinNum)
             THEN Put(pins, pinNum, createPinEntry(pinNum, getPinName(child), <<>>))
             ELSE pins)

\* Lines 289-410 for one part.  The parameter children are left out: the mpn
\* is the PartNumber field of the part, and there is no description.
RECURSIVE ExtractParts(_, _, _)
ExtractParts(h, parts, comps) ==
  IF Len(parts) = 0 THEN comps
  ELSE LET part == RecordAt(h, parts[1])
           kids == SelectSeq(ChildrenOf(h, parts[1]),
                             LAMBDA c : RecordAt(h, c).RECORD = DESIGNATOR)
           refdes == IF Len(kids) > 0 /\ Present(DesignatorText(RecordAt(h, kids[1])))
                     THEN DesignatorText(RecordAt(h, kids[1])) ELSE Undefined
           component == [mpn |-> IF Present(part.PartNumber) THEN part.PartNumber
                                 ELSE Undefined,
                         description |-> Undefined,
                         pins |-> PartPins(h, part, ChildrenOf(h, parts[1]), <<>>)]
       IN  ExtractParts(h, Tail(parts),
                        IF refdes = Undefined THEN comps ELSE Put(comps, refdes, component))

extractComponents(h) ==
  ExtractParts(h, getPartsList(h), <<>>)

\* Lines 199-217 for one pin of one net: the entry keeps its name, if any.
PopulatePin(comps, netName, refdes, pin) ==
  IF ~HasKey(comps, refdes) THEN comps
  ELSE LET component == Get(comps, refdes)
           next == IF HasKey(component.pins, pin)
                   THEN [Get(component.pins, pin) EXCEPT !.net = netName]
                   ELSE [name |-> Undefined, net |-> netName]
       IN  Put(comps, refdes, [component EXCEPT !.pins = Put(@, pin, next)])

RECURSIVE PopulatePins(_, _, _)
PopulatePins(comps, flat, i) ==
  IF i > Len(flat) THEN comps
  ELSE PopulatePins(PopulatePin(comps, flat[i][1], flat[i][2], flat[i][3]), flat, i + 1)

populatePinNets(comps, N) ==
  PopulatePins(comps, NetsFlat(N), 1)

\* Lines 420-446, from the records of the sheet on.
\* Lines 437-445.
SheetNetlist(h, parsedNets) ==
  [nets |-> parsedNets,
   components |-> populatePinNets(extractComponents(h), parsedNets)]

\* Lines 432-436.
ParseHierarchy(h, groups) ==
  SheetNetlist(h, convertNets(h, extractNets(h, groups)))

\* Lines 420-441; readOleStream throws for a sheet that cannot be read.
parseAltium(sheet) ==
  IF IsThrown(sheet) THEN sheet
  ELSE ParseHierarchy(buildHierarchy(sheet.records), sheet.groups)

\* [...new Set([...existing, ...newPins])]
RECURSIVE Union(_, _)
Union(existing, newPins) ==
  IF Len(newPins) = 0 THEN existing
  ELSE Union(IF InSeq(newPins[1], existing) THEN existing
             ELSE Append(existing, newPins[1]), Tail(newPins))

\* Lines 521-532: the connections of one net of a sheet merged into allNets.
RECURSIVE MergeConns(_, _)
MergeConns(into, conns) ==
  IF Len(conns) = 0 THEN into
  ELSE MergeConns(IF HasKey(into, conns[1][1])
                  THEN Put(into, conns[1][1], Union(Get(into, conns[1][1]), conns[1][2]))
                  ELSE Put(into, conns[1][1], conns[1][2]),
                  Tail(conns))

\* Lines 517-533.
RECURSIVE MergeNets(_, _)
MergeNets(allNets, N) ==
  IF Len(N) = 0 THEN allNets
  ELSE MergeNets(Put(allNets, N[1][1],
                     MergeConns(IF HasKey(allNets, N[1][1]) THEN Get(allNets, N[1][1])
                                ELSE <<>>, N[1][2])),
                 Tail(N))

\* The component of a later sheet is merged when its refdes is new (line 537).
IsNewComponent(allComponents, refdes) ==
  ~HasKey(allComponents, refdes)

\* Lines 536-540.
RECURSIVE MergeComponents(_, _)
MergeComponents(allComponents, comps) ==
  IF Len(comps) = 0 THEN allComponents
  ELSE MergeComponents(IF IsNewComponent(allComponents, comps[1][1])
                       THEN Put(allComponents, comps[1][1], comps[1][2])
                       ELSE allComponents,
                       Tail(comps))

RECURSIVE MergeSheets(_, _, _)
\* Lines 517-540 for one sheet.
MergeSheet(all, parsed) ==
  [nets |-> MergeNets(all.nets, parsed.nets),
   components |-> MergeComponents(all.components, parsed.components)]

\* Line 515: the error parseAltium throws for a sheet ends the loop.
MergeParsed(sheets, i, all, parsed) ==
  IF IsThrown(parsed) THEN parsed
  ELSE MergeSheets(sheets, i + 1, MergeSheet(all, parsed))

MergeSheets(sheets, i, all) ==
  IF i > Len(sheets) THEN all
  ELSE MergeParsed(sheets, i, all, parseAltium(sheets[i]))

\* An Altium design is [kind, sheets].  Returns [nets, components] or throws.
parseAltiumProject(design) ==
  IF Len(design.sheets) = 0
  THEN Throw(<<"N","o"," ","s","c","h","e","m","a","t","i","c"," ","d","o","c","u","m","e","n","t","s"," ","f","o","u","n","d">>)
  ELSE MergeSheets(design.sheets, 1, [nets |-> <<>>, components |-> <<>>])

\* ------------------------------------------------------------------------
\* Loading and querying a design (service.ts)
\*
\* A result is either [error], the message, or a record of the response
\* fields, an absent net field being Undefined; the skipped field is absent
\* exactly when it would be empty, and is the empty object here.
\* ------------------------------------------------------------------------

isErrorResult(x) ==
  "error" \in DOMAIN x

\* Lines 79-90: a pin without a net is given the net "NC".
NormalizePinKeep(entry) ==
  entry

NormalizePin(entry) ==
  IF getPinNet(entry) = <<>> THEN [entry EXCEPT !.net = <<"N","C">>] ELSE entry

normalizeUnconnectedPins(netlist) ==
  LET Pins(pins) == [p \in 1..Len(pins) |-> << pins[p][1], NormalizePin(pins[p][2]) >>]
      comps == netlist.components
  IN  [nets |-> netlist.nets,
       components |->
         [c \in 1..Len(comps) |->
            << comps[c][1], [comps[c][2] EXCEPT !.pins = Pins(@)] >>]]

\* parseDesign: the handler of the design's format.
parseDesign(design) ==
  IF design.kind = "cadence" THEN parseCadenceDesign(design)
  ELSE parseAltiumProject(design)

\* loadNetlist without its try/catch: the decoder's error goes on to the
\* caller.
NormalizeParsedUncaught(parsed) ==
  IF IsThrown(parsed) THEN parsed
  ELSE normalizeUnconnectedPins(parsed)

\* Lines 110-118: the error the decoder throws is caught and returned as an
\* error result with its message.
NormalizeParsed(parsed) ==
  IF IsThrown(parsed) THEN [error |-> parsed.error]
  ELSE normalizeUnconnectedPins(parsed)

\* Lines 103-109: the design file has no handler.
UnsupportedFormat ==
  [error |-> <<"U","n","s","u","p","p","o","r","t","e","d"," ","d","e","s","i","g","n"," ","f","i","l","e"," ","f","o","r","m","a","t">>]

\* Lines 98-119.
loadNetlist(design) ==
  IF design.kind \notin {"cadence", "altium"}
  THEN UnsupportedFormat
  ELSE NormalizeParsed(parseDesign(design))

MPN_MISSING_NOTE ==
  <<"M","P","N"," ","n","o","t"," ","f","o","u","n","d"," ","i","n"," ","e","x","p","o","r","t","e","d"," ","n","e","t","l","i","s","t"," ","d","a","t","a">>

\* connections.map((c) => ({ net: c.net, pins: compactArray(c.pins) }))
compactConnections(connections) ==
  [k \in 1..Len(connections) |->
     [net |-> connections[k].net, pins |-> compactArray(connections[k].pins)]]

\* Lines 240-292 for one component; acc is [groups, unaggregatable].
AggregateKeyed(acc, comp, mpn, description, netPair) ==
  LET aggregationKey == IF mpn # Null THEN <<"m","p","n",":">> \o mpn ELSE <<"d","e","s","c",":">> \o description
      groupKey == aggregationKey \o <<"|","|">> \o netPair \o <<"|","|","d","n","s",":">>
                    \o (IF comp.dns THEN <<"1">> ELSE <<"0">>)
      orientationKey ==
        Join([k \in 1..Len(comp.connections) |->
                Join(comp.connections[k].pins, <<",">>) \o <<":">> \o comp.connections[k].net],
             <<"|">>)
      group == IF HasKey(acc.groups, groupKey) THEN Get(acc.groups, groupKey)
               ELSE [mpn |-> mpn,
                     description |-> IF description # <<>> THEN description ELSE Undefined,
                     dns |-> comp.dns,
                     notes |-> IF mpn # Null THEN Undefined ELSE << MPN_MISSING_NOTE >>,
                     orientations |-> <<>>]
      orientation == IF HasKey(group.orientations, orientationKey)
                     THEN Get(group.orientations, orientationKey)
                     ELSE [count |-> 0, refdes |-> <<>>, connections |-> comp.connections]
      counted == [orientation EXCEPT !.count = @ + 1,
                                     !.refdes = IF comp.refdes # <<>>
                                                THEN Append(@, comp.refdes) ELSE @]
  IN  IF mpn = Null /\ description = <<>>
      THEN [acc EXCEPT !.unaggregatable = Append(@, comp)]
      ELSE [acc EXCEPT !.groups =
              MapSet(@, groupKey,
                     [group EXCEPT !.orientations = MapSet(@, orientationKey, counted)])]

AggregateComponent(acc, comp) ==
  AggregateKeyed(acc, comp,
    IF Truthy(comp.mpn) /\ Trim(comp.mpn) # <<>> THEN Trim(comp.mpn) ELSE Null,
    IF Truthy(comp.description) THEN Trim(comp.description) ELSE <<>>,
    Join(Sort([k \in 1..Len(comp.connections) |-> comp.connections[k].net], "default"),
         <<"|">>))

RECURSIVE AggregateComponents(_, _, _)
AggregateComponents(circuit, i, acc) ==
  IF i > Len(circuit) THEN acc
  ELSE AggregateComponents(circuit, i + 1, AggregateComponent(acc, circuit[i]))

RECURSIVE TotalCount(_)
TotalCount(orientationsList) ==
  IF Len(orientationsList) = 0 THEN 0
  ELSE orientationsList[1].count + TotalCount(Tail(orientationsList))

\* Lines 300-344 for one group.
GroupOf(group, orientationsList) ==
  LET single == Len(orientationsList) = 1
  IN  [mpn |-> group.mpn,
       total_count |-> TotalCount(orientationsList),
       description |-> group.description,
       dns |-> group.dns,
       notes |-> group.notes,
       refdes |-> IF single THEN compactArray(Sort(orientationsList[1].refdes, "pin"))
                  ELSE Undefined,
       connections |-> IF single THEN compactConnections(orientationsList[1].connections)
                       ELSE Undefined,
       orientations |->
         IF single THEN Undefined
         ELSE [k \in 1..Len(orientationsList) |->
                 [count |-> orientationsList[k].count,
                  refdes |-> compactArray(Sort(orientationsList[k].refdes, "pin")),
                  connections |-> compactConnections(orientationsList[k].connections)]]]

AggregatedGroup(group) ==
  GroupOf(group,
    Sort([k \in 1..Len(group.orientations) |-> group.orientations[k][2]], "countDesc"))

\* Lines 346-369 for one component without mpn and description.
Unaggregated(comp) ==
  [mpn |-> Null,
   total_count |-> 1,
   description |-> comp.description,
   dns |-> comp.dns,
   notes |-> << MPN_MISSING_NOTE >>,
   refdes |-> comp.refdes,
   connections |-> compactConnections(comp.connections),
   orientations |-> Undefined]

\* Lines 215-372.
SortedGroups(acc) ==
  Sort([k \in 1..Len(acc.groups) |-> AggregatedGroup(acc.groups[k][2])]
         \o [k \in 1..Len(acc.unaggregatable) |-> Unaggregated(acc.unaggregatable[k])],
       "totalDesc")

aggregateCircuitByMpn(circuit) ==
  SortedGroups(AggregateComponents(circuit, 1, [groups |-> <<>>, unaggregatable |-> <<>>]))

\* A net the design does not have is refused (line 743).
NetKnownNever(N, netName) ==
  FALSE

NetKnown(N, netName) ==
  HasKey(N, netName)

\* Lines 730-778.
\* The result built from a traversal and its aggregation (lines 761-777 and
\* 856-873).
XnetResult(startingPoint, netName, traversal, aggregated) ==
  [starting_point |-> startingPoint,
   net |-> netName,
   total_components |-> Len(traversal.components),
   unique_configurations |-> Len(aggregated),
   components_by_mpn |-> aggregated,
   visited_nets |-> traversal.visited_nets,
   circuit_hash |-> computeCircuitHash(traversal.components),
   skipped |-> traversal.skipped]

XnetOfTraversal(startingPoint, netName, traversal) ==
  XnetResult(startingPoint, netName, traversal, aggregateCircuitByMpn(traversal.components))

\* Lines 738-777, on the loaded netlist.
XnetByNetName(netlist, netName, skipTypes, includeDns) ==
  IF isErrorResult(netlist) THEN netlist
  ELSE IF ~NetKnown(netlist.nets, netName)
  THEN [error |-> <<"N","e","t"," ","n","o","t"," ","f","o","u","n","d",":"," ">> \o netName]
  ELSE IF isGroundNet(netName)
  THEN [error |-> netName \o <<" ","i","s"," ","a"," ","g","r","o","u","n","d"," ","n","e","t"," ","a","n","d"," ","c","a","n","n","o","t"," ","b","e"," ","q","u","e","r","i","e","d",".">>]
  ELSE XnetOfTraversal(netName, Undefined,
         traverseCircuitFromNet(netName, netlist.nets, netlist.components,
           [skipTypes |-> skipTypes, includeDns |-> includeDns]))

queryXnetByNetName(design, netName, skipTypes, includeDns) ==
  XnetByNetName(loadNetlist(design), netName, skipTypes, includeDns)

\* Lines 799-830: the pin a pin spec resolves to, [refdes, pin, net], or the
\* error result.
ResolvePin(netlist, pinSpec) ==
  LET parts == SplitChar(pinSpec, ".")
      refdesInput == parts[1]
      pinInput == parts[2]
      matches == SelectSeq(Keys(netlist.components),
                   LAMBDA refdes : ToLowerCase(refdes) = ToLowerCase(Trim(refdesInput)))
      resolvedRefdes == matches[1]
      component == Get(netlist.components, resolvedRefdes)
      pinKeys == SelectSeq(Keys(component.pins),
                   LAMBDA pin : ToLowerCase(pin) = ToLowerCase(Trim(pinInput)))
      pinKey == pinKeys[1]
  IN  IF Len(parts) # 2
      THEN [error |-> <<"I","n","v","a","l","i","d"," ","p","i","n"," ","n","a","m","e",":"," ">> \o pinSpec]
      ELSE IF Len(matches) = 0
      THEN [error |-> <<"C","o","m","p","o","n","e","n","t"," ","n","o","t"," ","f","o","u","n","d",":"," ">> \o refdesInput]
      ELSE IF Len(pinKeys) = 0
      THEN [error |-> <<"P","i","n"," ","n","o","t"," ","f","o","u","n","d",":"," ">> \o pinSpec \o <<" ","h","a","s"," ","p","i","n","s",":"," ">>
                        \o Join(Sort(Keys(component.pins), "pin"), <<","," ">>)]
      ELSE [refdes |-> resolvedRefdes, pin |-> pinKey,
            net |-> getPinNet(Get(component.pins, pinKey))]

\* Lines 788-874.
\* A pin query that never refuses a ground net.
XnetOfPinAnyNet(netlist, startingPoint, connectedNet, skipTypes, includeDns) ==
  XnetOfTraversal(startingPoint, connectedNet,
    traverseCircuitFromNet(connectedNet, netlist.nets, netlist.components,
      [skipTypes |-> skipTypes, includeDns |-> includeDns]))

\* Lines 832-873, for the resolved pin.
XnetOfPin(netlist, startingPoint, connectedNet, skipTypes, includeDns) ==
  IF isGroundNet(connectedNet)
  THEN [error |-> <<"P","i","n"," ">> \o startingPoint \o <<" ","i","s"," ","c","o","n","n","e","c","t","e","d"," ","t","o"," ">> \o connectedNet
                    \o <<" ","(","g","r","o","u","n","d",")"," ","a","n","d"," ","c","a","n","n","o","t"," ","b","e"," ","q","u","e","r","i","e","d",".">>]
  ELSE IF connectedNet = <<"N","C">>
  THEN [starting_point |-> startingPoint,
        net |-> <<"N","C">>,
        total_components |-> 0,
        unique_configurations |-> 0,
        components_by_mpn |-> <<>>,
        visited_nets |-> << <<"N","C">> >>,
        circuit_hash |-> <<"n","c","-">> \o startingPoint,
        skipped |-> <<>>]
  ELSE XnetOfTraversal(startingPoint, connectedNet,
         traverseCircuitFromNet(connectedNet, netlist.nets, netlist.components,
           [skipTypes |-> skipTypes, includeDns |-> includeDns]))

XnetOfResolved(netlist, resolved, skipTypes, includeDns) ==
  IF isErrorResult(resolved) THEN resolved
  ELSE XnetOfPin(netlist, resolved.refdes \o <<".">> \o resolved.pin, resolved.net,
                 skipTypes, includeDns)

\* Lines 796-873, on the loaded netlist.
XnetByPinName(netlist, pinSpec, skipTypes, includeDns) ==
  IF isErrorResult(netlist) THEN netlist
  ELSE XnetOfResolved(netlist, ResolvePin(netlist, pinSpec), skipTypes, includeDns)

queryXnetByPinName(design, pinSpec, skipTypes, includeDns) ==
  XnetByPinName(loadNetlist(design), pinSpec, skipTypes, includeDns)

\* ------------------------------------------------------------------------
\* The designs that are loaded and the queries made on them
\* ------------------------------------------------------------------------

\* Largest number of NODE_NAME lines of a pstxnet file.
MaxNodes ==
  3

\* Largest number of pins placed on the first sheet of an Altium project.
MaxSheetPins ==
  2

Gnd ==
  <<"G","N","D">>

\* An instance path in the place of a refdes.
InstancePath ==
  <<"@","D",":","I","1","@","P">>

\* The nodes a pstxnet file is written from.
CadenceNodes ==
  << << R1, P1 >>, << R1, P2 >>, << U1, P1 >>, << InstancePath, P1 >> >>

NodeLines(nodes) ==
  [k \in 1..Len(nodes) |->
     <<" ","N","O","D","E","_","N","A","M","E"," ">> \o CadenceNodes[nodes[k]][1] \o <<" "," ">> \o CadenceNodes[nodes[k]][2]]

\* A NET_NAME section: header, quoted name, its path line, its nodes.
NetSection(name, nodes) ==
  IF Len(nodes) = 0 THEN <<>>
  ELSE << <<"N","E","T","_","N","A","M","E">>, <<"'">> \o name \o <<"'">>, <<" ","'","@","D","'",":">> >> \o NodeLines(nodes)

\* at[k] is the section (1 or 2) node k is written in, 0 for none; the
\* second section is named secondName.
PstxnetFile(at, secondName) ==
  << <<"F","I","L","E","_","T","Y","P","E"," ","="," ","E","X","P","A","N","D","E","D","N","E","T","L","I","S","T",";">> >>
    \o NetSection(NetA, SelectSeq(<< 1, 2, 3, 4 >>, LAMBDA k : at[k] = 1))
    \o NetSection(secondName, SelectSeq(<< 1, 2, 3, 4 >>, LAMBDA k : at[k] = 2))
    \o << <<"E","N","D",".">> >>

PstxnetFiles ==
  { PstxnetFile(at, secondName) :
      at \in { f \in [1..Len(CadenceNodes) -> 0..2] :
                 Cardinality({ k \in 1..Len(CadenceNodes) : f[k] # 0 }) <= MaxNodes },
      secondName \in { NetB, Gnd, NetA } }

PstxprtFiles ==
  { << <<"F","I","L","E","_","T","Y","P","E"," ","="," ","E","X","P","A","N","D","E","D","P","A","R","T","L","I","S","T",";">>,
       <<"P","A","R","T","_","N","A","M","E">>, <<" ","R","1"," ","'","R","E","S","'",":",";">>, <<>>, <<" ","M","F","G","R","_","P","N","=","'","1","0","k","'",",">>, <<" ","R","O","O","M"," ","="," ","'","x","'",";">>,
       <<"P","A","R","T","_","N","A","M","E">>, <<" ","U","1"," ","'","I","C","'",":",";">>, <<" ","R","O","O","M","=","'","x","'",";">>,
       <<"E","N","D",".">> >>,
    << <<"P","A","R","T","_","N","A","M","E">>, <<" ","R","1"," ","'","R","E","S","'",":",";">>, <<" ","D","E","S","C","R","=","'","D","N","P","'",";">> >> }

PstchipFiles ==
  { <<>>, << [part_name |-> <<"I","C">>, pins |-> << << <<"V","I","N">>, P1 >> >>] >> }

CadenceDesigns ==
  { [kind |-> "cadence", datFiles |-> TRUE, pstxnet |-> net, pstxprt |-> prt,
     pstchip |-> chip] :
      net \in PstxnetFiles, prt \in PstxprtFiles, chip \in PstchipFiles }
    \cup { [kind |-> "cadence", datFiles |-> FALSE, pstxnet |-> <<>>, pstxprt |-> <<>>,
            pstchip |-> <<>>] }

Record(type, owner, text, designator, name, partNumber) ==
  [RECORD |-> type, OwnerIndex |-> owner, Text |-> text, Designator |-> designator,
   Name |-> name, PartNumber |-> partNumber, CurrentPartId |-> Undefined,
   OwnerPartId |-> Undefined, DESIGNATOR |-> Undefined]

\* A record that is neither a part nor a device (a sheet graphic).
Graphic ==
  Record("6", Undefined, Undefined, Undefined, Undefined, Undefined)

\* The records of a sheet with the parts U1 (pins 1 = VIN and 2) and R1 (pins
\* 1 and 2) and the net label A.  how[k] says how pin k of the four is placed:
\* "absent", "alone" (connected to nothing), "labelled" (connected to the net
\* label) or "joined" (connected to the other joined pins).  A part without
\* pins on the sheet and a label without pins are not on the sheet.
SheetRecords(how) ==
  LET PartOr(on, rec) == IF on THEN rec ELSE Graphic
      PinOr(k, rec) == IF how[k] # "absent" THEN rec ELSE Graphic
      hasU == how[1] # "absent" \/ how[2] # "absent"
      hasR == how[3] # "absent" \/ how[4] # "absent"
      hasLabel == \E k \in 1..4 : how[k] = "labelled"
  IN  << PartOr(hasU, Record(COMPONENT, Undefined, Undefined, Undefined, Undefined, MpnIC)),
         PartOr(hasU, Record(DESIGNATOR, <<"0">>, U1, Undefined, Undefined, Undefined)),
         PinOr(1, Record(PIN, <<"0">>, Undefined, P1, <<"V","I","N">>, Undefined)),
         PinOr(2, Record(PIN, <<"0">>, Undefined, P2, P2, Undefined)),
         PartOr(hasR, Record(COMPONENT, Undefined, Undefined, Undefined, Undefined, Mpn10k)),
         PartOr(hasR, Record(DESIGNATOR, <<"4">>, R1, Undefined, Undefined, Undefined)),
         PinOr(3, Record(PIN, <<"4">>, Undefined, P1, P1, Undefined)),
         PinOr(4, Record(PIN, <<"4">>, Undefined, P2, P2, Undefined)),
         PartOr(hasLabel, Record(NET_LABEL, Undefined, NetA, Undefined, Undefined, Undefined)) >>

\* The index of pin k among the records of a sheet (0-based), and after
\* them that of the label.
SheetDeviceIndex ==
  << 2, 3, 6, 7, 8 >>

\* The groups of connected devices of the sheet, each in index order, in the
\* order of their first device.
SheetGroups(how) ==
  LET Placed(v) == SelectSeq(<< 1, 2, 3, 4 >>, LAMBDA k : how[k] = v)
      Indices(ks) == [i \in 1..Len(ks) |-> SheetDeviceIndex[ks[i]]]
      First(v, k) == Placed(v)[1] = k
      GroupAt(k) ==
        IF how[k] = "alone" THEN << << SheetDeviceIndex[k] >> >>
        ELSE IF how[k] = "joined" /\ First("joined", k)
        THEN << Indices(Placed("joined")) >>
        ELSE IF how[k] = "labelled" /\ First("labelled", k)
        THEN << Indices(Placed("labelled")) \o << SheetDeviceIndex[5] >> >>
        ELSE <<>>
  IN  GroupAt(1) \o GroupAt(2) \o GroupAt(3) \o GroupAt(4)

Sheet(how) ==
  [records |-> SheetRecords(how), groups |-> SheetGroups(how)]

\* A sheet on which the net label A is placed twice: once on pin 1 of U1 and
\* once, somewhere else, on pin 1 of R1.
SplitLabelSheet ==
  [records |-> SheetRecords(<< "labelled", "absent", "labelled", "absent" >>)
                 \o << Record(NET_LABEL, Undefined, NetA, Undefined, Undefined, Undefined) >>,
   groups |-> << << 2, 8 >>, << 6, 9 >> >>]

\* The sheets readOleStream fails on, each with the message thrown: a bad
\* signature, a bad byte-order marker, a chain beyond the cap, and a file
\* that cannot be read.
FailingSheets ==
  { Throw(<<"I","n","v","a","l","i","d"," ","O","L","E"," ","f","i","l","e",":"," ","m","a","g","i","c"," ","s","i","g","n","a","t","u","r","e"," ","m","i","s","m","a","t","c","h">>),
    Throw(<<"I","n","v","a","l","i","d"," ","O","L","E"," ","f","i","l","e",":"," ","u","n","e","x","p","e","c","t","e","d"," ","b","y","t","e"," ","o","r","d","e","r">>),
    Throw(<<"S","e","c","t","o","r"," ","c","h","a","i","n"," ","t","o","o"," ","l","o","n","g",","," ","p","o","s","s","i","b","l","e"," ","c","o","r","r","u","p","t","i","o","n">>),
    Throw(<<"E","N","O","E","N","T",":"," ","n","o"," ","s","u","c","h"," ","f","i","l","e"," ","o","r"," ","d","i","r","e","c","t","o","r","y">>) }

Placements ==
  [1..4 -> {"absent", "alone", "labelled", "joined"}]

PinsPlaced(how) ==
  Cardinality({ k \in 1..4 : how[k] # "absent" })

\* A project of one sheet, or of two sheets the second of which holds a
\* single pin that is not on the first, a project of the sheet with two
\* labels, a project whose only or second sheet cannot be read, and a
\* project without sheets.
AltiumDesigns ==
  { [kind |-> "altium", sheets |-> << Sheet(how) >>] :
      how \in { f \in Placements : PinsPlaced(f) <= MaxSheetPins } }
    \cup { [kind |-> "altium", sheets |-> << Sheet(pair[1]), Sheet(pair[2]) >>] :
             pair \in { q \in { f \in Placements : PinsPlaced(f) <= MaxSheetPins }
                                \X { f \in Placements : PinsPlaced(f) = 1 } :
                          \A k \in 1..4 : q[2][k] # "absent" => q[1][k] = "absent" } }
    \cup { [kind |-> "altium", sheets |-> << SplitLabelSheet >>] }
    \cup { [kind |-> "altium", sheets |-> << failing >>] : failing \in FailingSheets }
    \cup { [kind |-> "altium", sheets |-> << SplitLabelSheet, failing >>] :
             failing \in FailingSheets }
    \cup { [kind |-> "altium", sheets |-> <<>>] }

Designs ==
  CadenceDesigns \cup AltiumDesigns \cup { [kind |-> "other"] }

\* The option variants of a query.
QueryOptions ==
  { [skipTypes |-> <<>>, includeDns |-> FALSE],
    [skipTypes |-> << <<" ","u">> >>, includeDns |-> TRUE] }

\* The pins of C as <<refdes, pin>>.
ComponentPins(C) ==
  UNION { { << C[c][1], C[c][2].pins[p][1] >> : p \in 1..Len(C[c][2].pins) } :
            c \in 1..Len(C) }

\* The pin specs asked for: every pin of the design, written in lower case
\* and with a blank, a pin and a component the design does not have, and a
\* spec without a pin.
PinSpecs(netlist) ==
  (IF isErrorResult(netlist) THEN {}
   ELSE { ToLowerCase(rp[1]) \o <<" ",".">> \o ToLowerCase(rp[2]) :
            rp \in ComponentPins(netlist.components) })
    \cup { <<"U","1",".","9">>, <<"Z","9",".","1">>, <<"U","1">> }

\* The net names asked for: every net of N, every net a pin of C carries, and
\* a net the design does not have.
NetNames(netlist) ==
  (IF isErrorResult(netlist) THEN {}
   ELSE { netlist.nets[n][1] : n \in 1..Len(netlist.nets) }
          \cup { getPinNet(Get(Get(netlist.components, rp[1]).pins, rp[2])) :
                   rp \in ComponentPins(netlist.components) })
    \cup { <<"Z">> }

InitLoad ==
  /\ loadPc = "design"
  /\ designFile \in Designs
  /\ decoded = Undefined
  /\ loaded = Undefined
  /\ pinQuery = Undefined
  /\ pinResult = Undefined
  /\ netQuery = Undefined
  /\ netResult = Undefined
  /\ TraversalIdle
  /\ HashIdle
  /\ OleIdle
  /\ RecordsIdle
  /\ FrameIdle
  /\ RequestsIdle
  /\ SortIdle
  /\ DiscoveryIdle
  /\ ConnectivityIdle
  /\ ProjectIdle
  /\ HierarchyIdle

\* loadNetlist(design): the decoder's result, then the loaded netlist.
Load ==
  /\ loadPc = "design"
  /\ decoded' = IF designFile.kind \in {"cadence", "altium"} THEN parseDesign(designFile)
                ELSE UnsupportedFormat
  /\ loaded' = loadNetlist(designFile)
  /\ loadPc' = "loaded"
  /\ UNCHANGED << designFile, pinQuery, pinResult, netQuery, netResult, exceptLoadVars >>

\* queryXnetByPinName(design, pinSpec, skipTypes, includeDns)
QueryByPin ==
  /\ loadPc = "loaded"
  /\ \E pinSpec \in PinSpecs(loaded), o \in QueryOptions :
       /\ pinQuery' = [pinSpec |-> pinSpec, skipTypes |-> o.skipTypes,
                       includeDns |-> o.includeDns]
       /\ pinResult' = queryXnetByPinName(designFile, pinSpec, o.skipTypes, o.includeDns)
  /\ loadPc' = "pin"
  /\ UNCHANGED << designFile, decoded, loaded, netQuery, netResult, exceptLoadVars >>

\* queryXnetByNetName(design, netName, skipTypes, includeDns), with the
\* options of the pin query.
QueryByNet ==
  /\ loadPc = "pin"
  /\ \E netName \in NetNames(loaded) :
       /\ netQuery' = [netName |-> netName, skipTypes |-> pinQuery.skipTypes,
                       includeDns |-> pinQuery.includeDns]
       /\ netResult' = queryXnetByNetName(designFile, netName, pinQuery.skipTypes,
                                          pinQuery.includeDns)
  /\ loadPc' = "both"
  /\ UNCHANGED << designFile, decoded, loaded, pinQuery, pinResult, exceptLoadVars >>

NextLoad ==
  \/ Load
  \/ QueryByPin
  \/ QueryByNet

SpecLoad ==
  InitLoad /\ [][NextLoad]_vars

\* ------------------------------------------------------------------------
\* Properties of loaded designs and of the two xnet queries
\* ------------------------------------------------------------------------

\* The (netName, refdes, pin) triples of N.
NetTriples(N) ==
  { NetsFlat(N)[i] : i \in 1..Len(NetsFlat(N)) }

HasPin(C, refdes, pin) ==
  /\ HasKey(C, refdes)
  /\ HasKey(Get(C, refdes).pins, pin)

EmbeddedNet(C, refdes, pin) ==
  getPinNet(Get(Get(C, refdes).pins, pin))

\* pin is in N[netName][refdes].
InNet(N, netName, refdes, pin) ==
  /\ HasKey(N, netName)
  /\ HasKey(Get(N, netName), refdes)
  /\ InSeq(pin, Get(Get(N, netName), refdes))

\* loadNetlist has returned a netlist.
IsLoaded ==
  /\ loadPc \in {"loaded", "pin", "both"}
  /\ ~isErrorResult(loaded)

\* The pin query resolved to a pin on a net that is neither NC nor a ground
\* net, and the net query asked for that net.
QueriesMatch ==
  /\ loadPc = "both"
  /\ ~isErrorResult(loaded)
  /\ ~isErrorResult(ResolvePin(loaded, pinQuery.pinSpec))
  /\ ResolvePin(loaded, pinQuery.pinSpec).net # <<"N","C">>
  /\ ~isGroundNet(ResolvePin(loaded, pinQuery.pinSpec).net)
  /\ netQuery.netName = ResolvePin(loaded, pinQuery.pinSpec).net

\* C8: for a pin spec that resolves to a pin whose embedded net n is neither
\* NC nor a ground net, queryXnetByPinName on the pin and queryXnetByNetName
\* on n, with the same options, are both error results or both results that
\* agree on total_components, unique_configurations, components_by_mpn,
\* visited_nets, circuit_hash and skipped; they differ in starting_point and
\* in the net field, which only the pin query's result carries.
C8_PinNetQueryEquivalence ==
  QueriesMatch =>
    \/ /\ isErrorResult(pinResult)
       /\ isErrorResult(netResult)
    \/ /\ ~isErrorResult(pinResult)
       /\ ~isErrorResult(netResult)
       /\ pinResult.total_components = netResult.total_components
       /\ pinResult.unique_configurations = netResult.unique_configurations
       /\ pinResult.components_by_mpn = netResult.components_by_mpn
       /\ pinResult.visited_nets = netResult.visited_nets
       /\ pinResult.circuit_hash = netResult.circuit_hash
       /\ pinResult.skipped = netResult.skipped
       /\ pinResult.net = netQuery.netName
       /\ netResult.net = Undefined
       /\ netResult.starting_point = netQuery.netName
       /\ pinResult.starting_point =
            ResolvePin(loaded, pinQuery.pinSpec).refdes \o <<".">>
              \o ResolvePin(loaded, pinQuery.pinSpec).pin

\* Both queries ran a traversal that went through a passive, once with a
\* component type skipped.
C8_Witness ==
  /\ QueriesMatch
  /\ ~isErrorResult(pinResult)
  /\ ~isErrorResult(netResult)
  /\ Len(pinResult.visited_nets) >= 2
  /\ pinResult.total_components >= 1
  /\ Len(pinResult.skipped) >= 1

\* C9: in every decoded design, for every (netName, refdes, pin) of N the
\* entry C[refdes].pins[pin] exists and its embedded net is netName.
C9_ForwardSymmetry ==
  (loadPc \in {"loaded", "pin", "both"} /\ ~isErrorResult(decoded)) =>
    \A t \in NetTriples(decoded.nets) :
      /\ HasPin(decoded.components, t[2], t[3])
      /\ EmbeddedNet(decoded.components, t[2], t[3]) = t[1]

IsDecoded ==
  /\ loadPc \in {"loaded", "pin", "both"}
  /\ ~isErrorResult(decoded)

\* C11 as claimed: after a Cadence design is decoded, every key of C and
\* every refdes key of every N[net] passes isValidRefdes.
C11_InstancePathsFiltered ==
  (IsDecoded /\ designFile.kind = "cadence") =>
    /\ \A refdes \in RangeOf(Keys(decoded.components)) : isValidRefdes(refdes)
    /\ \A t \in NetTriples(decoded.nets) : isValidRefdes(t[2])

\* The pin query resolved to a pin.
PinResolved ==
  /\ loadPc \in {"pin", "both"}
  /\ ~isErrorResult(loaded)
  /\ ~isErrorResult(ResolvePin(loaded, pinQuery.pinSpec))

\* C12: a net query for a net name matching isGroundNet, and a pin query
\* whose resolved pin is on a net matching isGroundNet, give an error result
\* (for a net of the design: the ground-net diagnostic), never a traversal
\* result.
C12_GroundNetRefusal ==
  /\ (loadPc = "both" /\ ~isErrorResult(loaded) /\ isGroundNet(netQuery.netName)) =>
       /\ isErrorResult(netResult)
       /\ HasKey(loaded.nets, netQuery.netName) =>
            netResult.error = netQuery.netName \o <<" ","i","s"," ","a"," ","g","r","o","u","n","d"," ","n","e","t"," ","a","n","d"," ","c","a","n","n","o","t"," ","b","e"," ","q","u","e","r","i","e","d",".">>
  /\ (PinResolved /\ isGroundNet(ResolvePin(loaded, pinQuery.pinSpec).net)) =>
       /\ isErrorResult(pinResult)
       /\ pinResult.error =
            <<"P","i","n"," ">> \o ResolvePin(loaded, pinQuery.pinSpec).refdes \o <<".">>
              \o ResolvePin(loaded, pinQuery.pinSpec).pin \o <<" ","i","s"," ","c","o","n","n","e","c","t","e","d"," ","t","o"," ">>
              \o ResolvePin(loaded, pinQuery.pinSpec).net
              \o <<" ","(","g","r","o","u","n","d",")"," ","a","n","d"," ","c","a","n","n","o","t"," ","b","e"," ","q","u","e","r","i","e","d",".">>

\* A pin query on a pin of the ground net and a net query for the ground
\* net of the design, the net carrying a passive that leads to another net.
C12_Witness ==
  /\ loadPc = "both"
  /\ PinResolved
  /\ isGroundNet(ResolvePin(loaded, pinQuery.pinSpec).net)
  /\ isGroundNet(netQuery.netName)
  /\ HasKey(loaded.nets, netQuery.netName)
  /\ \E refdes \in RangeOf(Keys(Get(loaded.nets, netQuery.netName))) :
       /\ isPassive(refdes)
       /\ Len(Get(loaded.components, refdes).pins) >= 2
  /\ isErrorResult(pinResult)
  /\ isErrorResult(netResult)

\* ------------------------------------------------------------------------
\* The compound-file reader (altium/ole-reader.ts)
\* ------------------------------------------------------------------------

\* The special sector values 0xfffffffe, 0xffffffff, 0xfffffffd and
\* 0xfffffffc, written as the 32-bit two's complement numbers they are.
ENDOFCHAIN == 0 - 2

FREESECT == 0 - 1

FATSECT == 0 - 3

DIFSECT == 0 - 4

\* What reading an array beyond its end gives (undefined), kept as a number
\* so that it compares with sector values: it equals none of them.
NoSector == 0 - 5

\* Sector size and mini sector size in bytes (1 << exponent, scaled down).
SectorSize == 2

MiniSectorSize == 1

\* The chain-length cap of getSectorChain, line 350 (1000000, scaled down).
MAX_CHAIN_LENGTH == 4

\* Number of FAT entries, and the largest declared stream size in bytes.
FatLen == 2

MaxStreamSize == 3

Minimum(a, b) ==
  IF a <= b THEN a ELSE b

\* this.fat[sector], this.miniFat[sector].
FatAt(fat, sector) ==
  IF sector \in 0..(Len(fat) - 1) THEN fat[sector + 1] ELSE NoSector

\* The loop condition of getSectorChain, lines 340-345, negated.
IsChainEnd(sector) ==
  sector \in {ENDOFCHAIN, FREESECT, FATSECT, DIFSECT}

\* readSector(sectorNum).length: subarray clamps to the file, and gives an
\* empty buffer for a sector outside it (or for undefined).
SectorLength(file, sector) ==
  IF sector \in 0..(file.sectors - 1) THEN SectorSize ELSE 0

\* Math.min(sectorSize, size - offset).
BytesToCopy(unit, size, offset) ==
  Minimum(unit, size - offset)

\* A stream read that advances only by the bytes it copied.
AdvanceCopied(offset, bytesToCopy, copied) ==
  offset + copied

\* offset += bytesToCopy, lines 298 and 317.
Advance(offset, bytesToCopy, copied) ==
  offset + bytesToCopy

\* Buffer.alloc(size): no byte copied yet.
Alloc(size) ==
  [i \in 1..size |-> FALSE]

\* source.copy(result, offset, ...) of count bytes.
CopyInto(buffer, offset, count) ==
  [i \in 1..Len(buffer) |-> IF i > offset /\ i <= offset + count THEN TRUE ELSE buffer[i]]

\* Whether every sector of a chain lies in the file, so that its directory
\* entries or mini-FAT entries can be read (readUInt16LE and readUInt32LE
\* throw on a buffer that is too short).
ChainReadable(file, chain) ==
  \A k \in 1..Len(chain) : SectorLength(file, chain[k]) = SectorSize

\* The locals of getSectorChain(startSector), lines 337-338.
StartChain(startSector) ==
  [NoWalk EXCEPT !.sector = startSector]

\* The locals of readRegularStream and readMiniStreamData, lines 290-292
\* and 309-311.
StartRead(startSector, size, mini) ==
  [NoWalk EXCEPT !.sector = startSector, !.size = size, !.mini = mini,
                 !.result = Alloc(size)]

\* One iteration of the loop of getSectorChain, lines 346-352.
ChainPushed(fat, walk) ==
  [walk EXCEPT !.chain = Append(walk.chain, walk.sector),
               !.sector = FatAt(fat, walk.sector),
               !.steps = walk.steps + 1]

\* One iteration of the loop of readRegularStream, lines 295-299.
RegularCopied(file, walk) ==
  [walk EXCEPT
     !.result = CopyInto(walk.result, walk.offset,
                  Minimum(BytesToCopy(SectorSize, walk.size, walk.offset),
                          SectorLength(file, walk.sector))),
     !.offset = Advance(walk.offset, BytesToCopy(SectorSize, walk.size, walk.offset),
                  Minimum(BytesToCopy(SectorSize, walk.size, walk.offset),
                          SectorLength(file, walk.sector))),
     !.sector = FatAt(file.fat, walk.sector),
     !.steps = walk.steps + 1]

\* miniStream.copy throws a RangeError when the source offset lies beyond
\* the mini stream; the special sector values give such an offset.
MiniCopyThrows(miniStream, sector) ==
  /\ sector # NoSector
  /\ \/ sector < 0
     \/ sector * MiniSectorSize > Len(miniStream)

\* The bytes miniStream.copy copies, line 316: none for an undefined sector
\* (the offsets are NaN and both become 0).
MiniCopied(miniStream, sector, bytesToCopy) ==
  IF sector = NoSector THEN 0
  ELSE Minimum(bytesToCopy, Len(miniStream) - sector * MiniSectorSize)

\* One iteration of the loop of readMiniStreamData, lines 314-318.
MiniStreamCopied(miniFat, miniStream, walk) ==
  [walk EXCEPT
     !.result = CopyInto(walk.result, walk.offset,
                  MiniCopied(miniStream, walk.sector,
                             BytesToCopy(MiniSectorSize, walk.size, walk.offset))),
     !.offset = Advance(walk.offset, BytesToCopy(MiniSectorSize, walk.size, walk.offset),
                  MiniCopied(miniStream, walk.sector,
                             BytesToCopy(MiniSectorSize, walk.size, walk.offset))),
     !.sector = FatAt(miniFat, walk.sector),
     !.steps = walk.steps + 1]

\* The loop condition of both stream reads, lines 294 and 313.
ReadContinues(walk) ==
  walk.sector # ENDOFCHAIN /\ walk.offset < walk.size

\* ------------------------------------------------------------------------
\* The compound files read, and readOleStream one step at a time
\* ------------------------------------------------------------------------

\* A FAT entry: a sector of the FAT, a sector beyond it, or a special value.
SectorValues ==
  0..FatLen \cup {ENDOFCHAIN, FREESECT, FATSECT, DIFSECT}

\* A start sector read from the header or from a directory entry.
StartSectors ==
  0..FatLen \cup {ENDOFCHAIN, FREESECT}

\* The files: every FAT of FatLen entries, over a file that holds all the
\* sectors of the FAT or lacks the last one.
OleFiles ==
  { [fat |-> fat, sectors |-> n] :
      fat \in [1..FatLen -> SectorValues], n \in (FatLen - 1)..FatLen }

\* The mini-FATs a chain of the given number of sectors can hold (one entry
\* per sector).
MiniFats(length) ==
  [1..length -> {0, 1, ENDOFCHAIN, FREESECT}]

\* The root entry, when the directory has one with a mini stream: its start
\* sector and size.
RootEntries ==
  { [startSector |-> s, size |-> n] : s \in {0, 1, ENDOFCHAIN}, n \in {1, 2, 3} }

\* The directory entry of the stream read: its start sector, its size and
\* whether the size is below the mini stream cutoff.
StreamEntries ==
  { [startSector |-> s, size |-> n, mini |-> m] :
      s \in StartSectors, n \in 0..MaxStreamSize, m \in BOOLEAN }

InitOle ==
  /\ olePc = "closed"
  /\ oleFile \in OleFiles
  /\ oleMiniFat = <<>>
  /\ oleMiniStream = <<>>
  /\ oleWalk = NoWalk
  /\ oleError = ""
  /\ TraversalIdle
  /\ HashIdle
  /\ LoadIdle
  /\ RecordsIdle
  /\ FrameIdle
  /\ RequestsIdle
  /\ SortIdle
  /\ DiscoveryIdle
  /\ ConnectivityIdle
  /\ ProjectIdle
  /\ HierarchyIdle

Fail(message) ==
  /\ olePc' = "failed"
  /\ oleError' = message

\* validateMagic and parseHeader, lines 76-95, for a bad signature or a bad
\* byte-order marker.
RejectHeader ==
  /\ olePc = "closed"
  /\ \E message \in {"Invalid OLE file: magic signature mismatch",
                     "Invalid OLE file: unexpected byte order"} : Fail(message)
  /\ UNCHANGED << oleFile, oleMiniFat, oleMiniStream, oleWalk, exceptOleVars >>

\* The constructor up to the call of getSectorChain in readDirectories,
\* line 227, for a header that names the first directory sector.
OpenDirectories ==
  /\ olePc = "closed"
  /\ \E dirStartSector \in StartSectors : oleWalk' = StartChain(dirStartSector)
  /\ olePc' = "directory"
  /\ UNCHANGED << oleFile, oleMiniFat, oleMiniStream, oleError, exceptOleVars >>

\* One iteration of getSectorChain, with its safety check.
ChainStep ==
  /\ olePc \in {"directory", "minifat"}
  /\ ~IsChainEnd(oleWalk.sector)
  /\ oleWalk' = ChainPushed(oleFile.fat, oleWalk)
  /\ IF Len(oleWalk'.chain) > MAX_CHAIN_LENGTH
     THEN Fail("Sector chain too long, possible corruption")
     ELSE UNCHANGED << olePc, oleError >>
  /\ UNCHANGED << oleFile, oleMiniFat, oleMiniStream, exceptOleVars >>

\* readDirectories after its chain walk, then buildMiniFat up to its chain
\* walk, lines 229-242 and 191-196.
ReadDirectories ==
  /\ olePc = "directory"
  /\ IsChainEnd(oleWalk.sector)
  /\ IF ~ChainReadable(oleFile, oleWalk.chain)
     THEN /\ Fail("The value of \"offset\" is out of range.")
          /\ UNCHANGED oleWalk
     ELSE /\ \E miniFatStartSector \in StartSectors :
               oleWalk' = StartChain(miniFatStartSector)
          /\ olePc' = "minifat"
          /\ UNCHANGED oleError
  /\ UNCHANGED << oleFile, oleMiniFat, oleMiniStream, exceptOleVars >>

\* buildMiniFat after its chain walk, then readMiniStream up to its loop,
\* lines 198-205 and 212-218: without a root entry, or with a root entry of
\* size 0, the mini stream is empty.
BuildMiniFat ==
  /\ olePc = "minifat"
  /\ IsChainEnd(oleWalk.sector)
  /\ IF ~ChainReadable(oleFile, oleWalk.chain)
     THEN /\ Fail("The value of \"offset\" is out of range.")
          /\ UNCHANGED << oleWalk, oleMiniFat, oleMiniStream >>
     ELSE /\ oleMiniFat' \in MiniFats(Len(oleWalk.chain))
          /\ UNCHANGED oleError
          /\ \/ /\ oleMiniStream' = <<>>
                /\ oleWalk' = NoWalk
                /\ olePc' = "ready"
             \/ \E rootEntry \in RootEntries :
                  /\ oleWalk' = StartRead(rootEntry.startSector, rootEntry.size, FALSE)
                  /\ olePc' = "ministream"
                  /\ UNCHANGED oleMiniStream
  /\ UNCHANGED << oleFile, exceptOleVars >>

\* One iteration of readRegularStream.
RegularStep ==
  /\ olePc \in {"ministream", "stream"}
  /\ ~oleWalk.mini
  /\ ReadContinues(oleWalk)
  /\ oleWalk' = RegularCopied(oleFile, oleWalk)
  /\ UNCHANGED << olePc, oleFile, oleMiniFat, oleMiniStream, oleError, exceptOleVars >>

\* readMiniStream returns the buffer of readRegularStream, line 302, and the
\* constructor ends.
ReadMiniStream ==
  /\ olePc = "ministream"
  /\ ~ReadContinues(oleWalk)
  /\ oleMiniStream' = oleWalk.result
  /\ olePc' = "ready"
  /\ UNCHANGED << oleFile, oleMiniFat, oleWalk, oleError, exceptOleVars >>

\* readStream(name), lines 58-64 and 279-284: the name is absent, or its
\* entry is read from the mini stream or from the sectors.
ReadStream ==
  /\ olePc = "ready"
  /\ \/ /\ Fail("Stream \"FileHeader\" not found in OLE file")
        /\ UNCHANGED oleWalk
     \/ \E entry \in StreamEntries :
          /\ oleWalk' = StartRead(entry.startSector, entry.size, entry.mini)
          /\ olePc' = "stream"
          /\ UNCHANGED oleError
  /\ UNCHANGED << oleFile, oleMiniFat, oleMiniStream, exceptOleVars >>

\* One iteration of readMiniStreamData.
MiniStep ==
  /\ olePc = "stream"
  /\ oleWalk.mini
  /\ ReadContinues(oleWalk)
  /\ IF MiniCopyThrows(oleMiniStream, oleWalk.sector)
     THEN /\ Fail("The value of \"sourceStart\" is out of range.")
          /\ UNCHANGED oleWalk
     ELSE /\ oleWalk' = MiniStreamCopied(oleMiniFat, oleMiniStream, oleWalk)
          /\ UNCHANGED << olePc, oleError >>
  /\ UNCHANGED << oleFile, oleMiniFat, oleMiniStream, exceptOleVars >>

\* readStream returns the buffer, lines 302 and 321.
ReturnStream ==
  /\ olePc = "stream"
  /\ ~ReadContinues(oleWalk)
  /\ olePc' = "done"
  /\ UNCHANGED << oleFile, oleMiniFat, oleMiniStream, oleWalk, oleError, exceptOleVars >>

NextOle ==
  \/ RejectHeader
  \/ OpenDirectories
  \/ ChainStep
  \/ ReadDirectories
  \/ BuildMiniFat
  \/ RegularStep
  \/ ReadMiniStream
  \/ ReadStream
  \/ MiniStep
  \/ ReturnStream

SpecOle ==
  InitOle /\ [][NextOle]_vars

\* readOleStream is one synchronous call: every step that can be taken is
\* taken.
SpecOleLive ==
  SpecOle /\ WF_vars(NextOle)

\* ------------------------------------------------------------------------
\* Properties of the compound-file reader
\* ------------------------------------------------------------------------

\* A stream buffer was returned: the mini stream to the constructor, or
\* the named stream to the caller.
StreamReturned ==
  \/ olePc = "ready" /\ Len(oleWalk.result) > 0
  \/ olePc = "done"

\* C13 as claimed: a chain that ends before the declared size is covered
\* makes the open or the read fail, so every byte of a returned stream
\* buffer was copied from the file.
C13_MalformedChainsFatal ==
  StreamReturned => \A i \in 1..Len(oleWalk.result) : oleWalk.result[i]

\* ceil(size / unit).
CeilDiv(size, unit) ==
  (size + unit - 1) \div unit

\* The operation in progress has ended.
OleEnded ==
  olePc \in {"done", "failed"}

\* The step bounds of C14 in a state.
ChainWalkBounded ==
  /\ olePc \in {"directory", "minifat"} => Len(oleWalk.chain) <= MAX_CHAIN_LENGTH
  /\ (olePc = "failed" /\ oleError = "Sector chain too long, possible corruption") =>
       Len(oleWalk.chain) = MAX_CHAIN_LENGTH + 1
  /\ olePc \in {"ministream", "stream", "done"} =>
       oleWalk.steps <= CeilDiv(oleWalk.size, IF oleWalk.mini THEN MiniSectorSize ELSE SectorSize)

\* C14: constructing the reader and reading the stream terminate for every
\* file, cyclic chains included; a directory or mini-FAT chain walk ends at
\* a terminator or fails once the chain exceeds the cap, and a stream read
\* takes at most ceil(size / sector size) chain steps.
C14_BoundedChainWalking ==
  /\ []ChainWalkBounded
  /\ <>OleEnded

\* A named stream whose chain is the cycle 0 -> 1 -> 0 was read in
\* ceil(size / sector size) steps.
C14_Witness ==
  /\ olePc = "done"
  /\ ~oleWalk.mini
  /\ oleFile.fat = << 1, 0 >>
  /\ oleWalk.size > SectorSize
  /\ oleWalk.steps = CeilDiv(oleWalk.size, SectorSize)

\* ------------------------------------------------------------------------
\* The record-stream parser (altium/record-parser.ts)
\* ------------------------------------------------------------------------

\* The byte 0x00.
Nul == "NUL"

\* buffer.subarray(start, end): a negative bound counts from the end, and
\* both bounds are clamped to the buffer.
Subarray(buffer, start, end) ==
  SubSeq(buffer,
         Minimum(IF start < 0 THEN Len(buffer) + start ELSE start, Len(buffer)) + 1,
         Minimum(IF end < 0 THEN (IF Len(buffer) + end < 0 THEN 0 ELSE Len(buffer) + end)
                 ELSE end, Len(buffer)))

\* Lines 120-124: the bytes 0x00 0x00 '|' at the 0-based position i.
AtDelimiter(buffer, i) ==
  /\ buffer[i + 1] = Nul
  /\ buffer[i + 2] = Nul
  /\ buffer[i + 3] = "|"

\* Lines 127-130: the segment before a delimiter found at i, if not empty.
SegmentBefore(buffer, start, delimiterStart) ==
  IF delimiterStart > start THEN << Subarray(buffer, start, delimiterStart) >> ELSE <<>>

\* The loop of splitByDelimiter from position i with the segment start
\* given, and the last segment, lines 118-140.
RECURSIVE SplitFrom(_, _, _)
SplitFrom(buffer, i, start) ==
  IF i >= Len(buffer) - 2
  THEN IF start < Len(buffer) THEN << Subarray(buffer, start, Len(buffer)) >> ELSE <<>>
  ELSE IF AtDelimiter(buffer, i)
  THEN SegmentBefore(buffer, start, IF i - 3 > start THEN i - 3 ELSE start)
         \o SplitFrom(buffer, i + 3, i + 3)
  ELSE SplitFrom(buffer, i + 1, start)

splitByDelimiter(buffer) ==
  SplitFrom(buffer, 0, 0)

\* Lines 163-172 for one pair of a segment.
AddPair(fields, pair) ==
  IF FirstIndexOf(pair, {"="}) = 0 THEN fields
  ELSE IF Len(Trim(SubSeq(pair, 1, FirstIndexOf(pair, {"="}) - 1))) = 0 THEN fields
  ELSE Put(fields, Trim(SubSeq(pair, 1, FirstIndexOf(pair, {"="}) - 1)),
           DropFirst(pair, FirstIndexOf(pair, {"="})))

RECURSIVE AddPairs(_, _)
AddPairs(fields, pairs) ==
  IF Len(pairs) = 0 THEN fields
  ELSE AddPairs(AddPair(fields, pairs[1]), Tail(pairs))

\* parseSegment(segment, index): the record's index and its other keys.
parseSegment(segment, index) ==
  [index |-> index, fields |-> AddPairs(<<>>, SplitChar(segment, "|"))]

\* The loop of parseRecords, lines 195-204, from the 0-based segment i.
RECURSIVE Datums(_, _)
Datums(segments, i) ==
  IF i >= Len(segments) THEN <<>>
  ELSE (IF Len(segments[i + 1]) > 0 /\ Len(parseSegment(segments[i + 1], i).fields) > 0
        THEN << parseSegment(segments[i + 1], i) >> ELSE <<>>)
         \o Datums(segments, i + 1)

\* Lines 207-210.
SeparateHeader(datums) ==
  [header |-> SelectSeq(datums, LAMBDA d : HasKey(d.fields, <<"H","E","A","D","E","R">>)),
   records |-> SelectSeq(datums, LAMBDA d : HasKey(d.fields, <<"R","E","C","O","R","D">>))]

parseRecords(buffer) ==
  SeparateHeader(Datums(splitByDelimiter(Subarray(buffer, 5, Len(buffer) - 1)), 0))

\* ------------------------------------------------------------------------
\* The streams parsed
\* ------------------------------------------------------------------------

\* Largest number of segments of a stream.
MaxSegments == 3

\* Longest stream that is shorter than the six bytes parseRecords trims.
MaxShort == 5

\* The texts of the segments: a header, two body records, a segment without
\* any key (dropped) and an empty one.
SegmentTexts ==
  { <<"H","E","A","D","E","R","=","S">>, <<"R","E","C","O","R","D","=","1">>, <<"R","E","C","O","R","D","=","2","|","O","w","n","e","r","I","n","d","e","x","=","0">>, <<"X">>, <<>> }

\* Three length bytes, then 0x00 0x00 '|'.
Delimiter ==
  << "L", Nul, Nul, Nul, Nul, "|" >>

RECURSIVE SegmentLists(_)
SegmentLists(n) ==
  IF n = 0 THEN { <<>> }
  ELSE SegmentLists(n - 1)
         \cup { << t >> \o rest : t \in SegmentTexts,
                                  rest \in { l \in SegmentLists(n - 1) : Len(l) = n - 1 } }

\* Five leading bytes, the segments joined by delimiters, one trailing byte.
StreamOf(segments) ==
  << "L", Nul, Nul, Nul, "|" >> \o Join(segments, Delimiter) \o << Nul >>

RECURSIVE ShortBuffers(_)
ShortBuffers(n) ==
  IF n = 0 THEN { <<>> }
  ELSE ShortBuffers(n - 1)
         \cup { << b >> \o rest : b \in {"R", "=", Nul},
                                  rest \in { l \in ShortBuffers(n - 1) : Len(l) = n - 1 } }

Buffers ==
  ShortBuffers(MaxShort) \cup { StreamOf(l) : l \in SegmentLists(MaxSegments) \ { <<>> } }

InitRecords ==
  /\ recPc = "call"
  /\ recBuffer \in Buffers
  /\ recResult = [header |-> <<>>, records |-> <<>>]
  /\ TraversalIdle
  /\ HashIdle
  /\ LoadIdle
  /\ OleIdle
  /\ FrameIdle
  /\ RequestsIdle
  /\ SortIdle
  /\ DiscoveryIdle
  /\ ConnectivityIdle
  /\ ProjectIdle
  /\ HierarchyIdle

ParseRecords ==
  /\ recPc = "call"
  /\ recResult' = parseRecords(recBuffer)
  /\ recPc' = "parsed"
  /\ UNCHANGED << recBuffer, exceptRecVars >>

NextRecords ==
  ParseRecords

SpecRecords ==
  InitRecords /\ [][NextRecords]_vars

\* ------------------------------------------------------------------------
\* Properties of the record-stream parser
\* ------------------------------------------------------------------------

\* C15 as claimed: parseRecords of a buffer shorter than six bytes fails
\* with a decode error and returns no header/body result.
C15_ShortStreamsFail ==
  (recPc = "parsed" /\ Len(recBuffer) < 6) => isErrorResult(recResult)

\* C16 as claimed: the index of every body record of the parseRecords
\* output is its 0-based position in the body list.
C16_BodyIndexIsPosition ==
  recPc = "parsed" =>
    \A k \in 1..Len(recResult.records) : recResult.records[k].index = k - 1

\* ------------------------------------------------------------------------
\* Properties of the Altium projection
\* ------------------------------------------------------------------------

\* The nets extracted from a sheet.
SheetNets(sheet) ==
  extractNets(buildHierarchy(sheet.records), sheet.groups)

\* The pins of the extracted nets of a sheet that convertNets does not
\* suppress, as <<net name, refdes, pin number>>.
ExtractedPins(sheet) ==
  UNION { { << SheetNets(sheet)[g].name,
               getDesignatorFromPin(buildHierarchy(sheet.records),
                                    RecordAt(buildHierarchy(sheet.records), d)),
               getPinNumber(RecordAt(buildHierarchy(sheet.records), d)) >> :
              d \in { x \in RangeOf(SheetNets(sheet)[g].devices) :
                        /\ RecordAt(buildHierarchy(sheet.records), x).RECORD = PIN
                        /\ Present(getDesignatorFromPin(buildHierarchy(sheet.records),
                                     RecordAt(buildHierarchy(sheet.records), x)))
                        /\ Present(getPinNumber(RecordAt(buildHierarchy(sheet.records), x))) } } :
            g \in { y \in 1..Len(SheetNets(sheet)) :
                      /\ ~IsLonePin(buildHierarchy(sheet.records), SheetNets(sheet)[y])
                      /\ SheetNets(sheet)[y].name # Null } }

NoDuplicates(seq) ==
  \A i, j \in 1..Len(seq) : seq[i] = seq[j] => i = j

IsErrorValue(x) ==
  /\ DOMAIN x = {"error"}
  /\ Len(x.error) > 0
  /\ \A i \in 1..Len(x.error) : x.error[i] \in STRING

\* The design has no handler, or its decoder failed.
DecodeFailed ==
  /\ loadPc \in {"loaded", "pin", "both"}
  /\ isErrorResult(decoded)

\* C18: whatever makes the decoding of a design fail (no handler for the
\* extension, missing Cadence files, no schematic documents, a sheet that
\* is no valid compound file or cannot be read), both queries return an
\* {error: string} value; no query ever ends with a thrown error.
C18_FailuresAreStructured ==
  /\ loadPc \in {"pin", "both"} =>
       /\ ~IsThrown(pinResult)
       /\ DecodeFailed => IsErrorValue(pinResult)
  /\ loadPc = "both" =>
       /\ ~IsThrown(netResult)
       /\ DecodeFailed => IsErrorValue(netResult)

\* Both queries were made on a project whose second sheet has a bad
\* signature, and both returned the decoder's message.
C18_Witness ==
  /\ loadPc = "both"
  /\ designFile.kind = "altium"
  /\ Len(designFile.sheets) = 2
  /\ IsThrown(decoded)
  /\ IsErrorValue(pinResult)
  /\ IsErrorValue(netResult)
  /\ pinResult.error = decoded.error
  /\ netResult.error = <<"I","n","v","a","l","i","d"," ","O","L","E"," ","f","i","l","e",":"," ","m","a","g","i","c"," ","s","i","g","n","a","t","u","r","e"," ","m","i","s","m","a","t","c","h">>

\* ------------------------------------------------------------------------
\* The model during traversal, hashing and aggregation
\*
\* traverseCircuitFromNet is handed N and C themselves, not copies.  Its
\* loops take the pin array N[net][refdes] as pinArray (line 318) and as
\* pinsArray (lines 373-376) and the component C[refdes] as comp (line 308);
\* they read them and put strings into the flat circuit.  The arrays that
\* groupCircuitPins sorts in place (line 230) are the ones it made at line
\* 215.  computeCircuitHash and aggregateCircuitByMpn are handed the
\* components of the result.
\* ------------------------------------------------------------------------

\* A loop over pinArray.sort(naturalSort): the array is sorted in place.
PinArraySorted(pinArray) ==
  Sort(pinArray, "pin")

\* Lines 318-320: the array N[net][refdes] after the loop over it.
PinArrayAfterLoop(pinArray) ==
  pinArray

\* N after the traversal: the pin arrays of the nets it visited, as its
\* loops left them.
NetsAfterTraversal(N, visited) ==
  [n \in 1..Len(N) |->
     IF InSeq(N[n][1], visited)
     THEN << N[n][1],
             [r \in 1..Len(N[n][2]) |->
                << N[n][2][r][1], PinArrayAfterLoop(N[n][2][r][2]) >>] >>
     ELSE N[n]]

\* Largest number of connected pins of a model whose frame is checked.
MaxFrameConn == 4

\* N with every pin array in the opposite order.
ReversedPins(N) ==
  [n \in 1..Len(N) |->
     << N[n][1],
        [r \in 1..Len(N[n][2]) |->
           << N[n][2][r][1],
              [m \in 1..Len(N[n][2][r][2]) |->
                 N[n][2][r][2][Len(N[n][2][r][2]) + 1 - m]] >>] >>]

InitFrame ==
  /\ framePc = "call"
  /\ \E g \in ConnChoices(MaxFrameConn) :
       /\ frameNets \in { BuildNets(TriplesOf(g)), ReversedPins(BuildNets(TriplesOf(g))) }
       /\ frameComponents = BuildComponents(g, 0, 0)
  /\ frameBefore = [nets |-> frameNets, components |-> frameComponents]
  /\ frameCall \in { [startNet |-> s, options |-> o] :
                       s \in RangeOf(TravNets),
                       o \in { [skipTypes |-> <<>>, includeDns |-> FALSE],
                               [skipTypes |-> << <<" ","u">> >>, includeDns |-> TRUE] } }
  /\ frameResult = [components |-> <<>>, visited_nets |-> <<>>, skipped |-> <<>>]
  /\ frameHash = [digest |-> <<>>]
  /\ frameAggregated = <<>>
  /\ TraversalIdle
  /\ HashIdle
  /\ LoadIdle
  /\ OleIdle
  /\ RecordsIdle
  /\ RequestsIdle
  /\ SortIdle
  /\ DiscoveryIdle
  /\ ConnectivityIdle
  /\ ProjectIdle
  /\ HierarchyIdle

\* traverseCircuitFromNet(startNet, N, C, options).
FrameTraverse ==
  /\ framePc = "call"
  /\ frameResult' = traverseCircuitFromNet(frameCall.startNet, frameNets, frameComponents,
                                           frameCall.options)
  /\ frameNets' = NetsAfterTraversal(frameNets, frameResult'.visited_nets)
  /\ framePc' = "traversed"
  /\ UNCHANGED << frameComponents, frameBefore, frameCall, frameHash, frameAggregated,
                  exceptFrameVars >>

\* computeCircuitHash(result.components).
FrameHash ==
  /\ framePc = "traversed"
  /\ frameHash' = computeCircuitHash(frameResult.components)
  /\ framePc' = "hashed"
  /\ UNCHANGED << frameNets, frameComponents, frameBefore, frameCall, frameResult,
                  frameAggregated, exceptFrameVars >>

\* aggregateCircuitByMpn(result.components).
FrameAggregate ==
  /\ framePc = "hashed"
  /\ frameAggregated' = aggregateCircuitByMpn(frameResult.components)
  /\ framePc' = "aggregated"
  /\ UNCHANGED << frameNets, frameComponents, frameBefore, frameCall, frameResult,
                  frameHash, exceptFrameVars >>

NextFrame ==
  \/ FrameTraverse
  \/ FrameHash
  \/ FrameAggregate

SpecFrame ==
  InitFrame /\ [][NextFrame]_vars

NumRequests == 2

Requests ==
  1..NumRequests

\* allNets and allComponents kept in one place for all calls.
AccumulatorOfModule(r) ==
  1

\* altium/index.ts:510-511: allNets and allComponents are created by each
\* call of parseAltiumProject; the call made for request r has its own.
Accumulator(r) ==
  r

NoLocals ==
  [next |-> 0, all |-> [nets |-> <<>>, components |-> <<>>]]

\* The designs on disk.
ServedDesigns ==
  { [kind |-> "altium",
     sheets |-> << Sheet(<<"joined","absent","joined","absent">>),
                   Sheet(<<"absent","absent","absent","alone">>) >>],
    [kind |-> "altium", sheets |-> << Sheet(<<"labelled","joined","joined","labelled">>) >>],
    [kind |-> "altium",
     sheets |-> << SplitLabelSheet,
                   Throw(<<"I","n","v","a","l","i","d"," ","O","L","E"," ","f","i","l","e",":"," ","m","a","g","i","c"," ","s","i","g","n","a","t","u","r","e"," ","m","i","s","m","a","t","c","h">>) >>],
    [kind |-> "altium", sheets |-> <<>>],
    [kind |-> "cadence", datFiles |-> TRUE,
     pstxnet |-> PstxnetFile(<<1, 2, 1, 0>>, NetB),
     pstxprt |-> CHOOSE prt \in PstxprtFiles : Len(prt) > 3,
     pstchip |-> << [part_name |-> <<"I","C">>, pins |-> << << <<"V","I","N">>, P1 >> >>] >>],
    [kind |-> "cadence", datFiles |-> FALSE, pstxnet |-> <<>>, pstxprt |-> <<>>,
     pstchip |-> <<>>],
    [kind |-> "other"] }

\* The queries a client sends: one of the two xnet queries on a design, for
\* a pin spec or a net name as in the single-request checks.
ServedQueries ==
  UNION { { [kind |-> "pin", design |-> d, arg |-> pinSpec, skipTypes |-> <<>>,
             includeDns |-> FALSE] : pinSpec \in PinSpecs(loadNetlist(d)) }
          \cup { [kind |-> "net", design |-> d, arg |-> netName, skipTypes |-> <<>>,
                  includeDns |-> FALSE] : netName \in NetNames(loadNetlist(d)) } :
          d \in ServedDesigns }

InitRequests ==
  /\ reqPc = [r \in Requests |-> "received"]
  /\ reqQuery \in [Requests -> ServedQueries]
  /\ reqLocals = [r \in Requests |-> NoLocals]
  /\ reqNetlist = [r \in Requests |-> Undefined]
  /\ reqResponse = [r \in Requests |-> Undefined]
  /\ TraversalIdle
  /\ HashIdle
  /\ LoadIdle
  /\ OleIdle
  /\ RecordsIdle
  /\ FrameIdle
  /\ SortIdle
  /\ DiscoveryIdle
  /\ ConnectivityIdle
  /\ ProjectIdle
  /\ HierarchyIdle

\* loadNetlist resolves to netlist for request r, whose query is resumed
\* later.
Resolved(r, netlist) ==
  /\ reqNetlist' = [reqNetlist EXCEPT ![r] = netlist]
  /\ reqPc' = [reqPc EXCEPT ![r] = "loaded"]

\* service.ts:736/794 and 98-111: the query calls loadNetlist, which finds
\* no handler and returns the error, or calls parseDesign, whose decoder
\* looks for the files of the design.
CallLoad(r) ==
  /\ reqPc[r] = "received"
  /\ IF reqQuery[r].design.kind \notin {"cadence", "altium"}
     THEN Resolved(r, UnsupportedFormat)
     ELSE /\ reqPc' = [reqPc EXCEPT ![r] = "finding"]
          /\ UNCHANGED reqNetlist
  /\ UNCHANGED << reqQuery, reqLocals, reqResponse, exceptReqVars >>

\* The files have been looked for.  parseAltiumProject throws without sheets
\* or creates allNets and allComponents and starts its loop;
\* parseCadenceDesign throws without files or calls parseCadence.
FilesFound(r) ==
  /\ reqPc[r] = "finding"
  /\ IF reqQuery[r].design.kind = "altium"
     THEN IF Len(reqQuery[r].design.sheets) = 0
          THEN /\ Resolved(r, NormalizeParsed(parseAltiumProject(reqQuery[r].design)))
               /\ UNCHANGED reqLocals
          ELSE /\ reqLocals' = [reqLocals EXCEPT ![Accumulator(r)] =
                                  [next |-> 1, all |-> [nets |-> <<>>, components |-> <<>>]]]
               /\ reqPc' = [reqPc EXCEPT ![r] = "sheets"]
               /\ UNCHANGED reqNetlist
     ELSE IF ~reqQuery[r].design.datFiles
          THEN /\ Resolved(r, NormalizeParsed(parseCadenceDesign(reqQuery[r].design)))
               /\ UNCHANGED reqLocals
          ELSE /\ reqPc' = [reqPc EXCEPT ![r] = "reading"]
               /\ UNCHANGED << reqLocals, reqNetlist >>
  /\ UNCHANGED << reqQuery, reqResponse, exceptReqVars >>

\* The state after the sheet parsed has been merged: the loop goes on, or
\* parseAltiumProject returns and loadNetlist normalizes what it returned.
SheetMerged(r, sheets, i, all) ==
  /\ reqLocals' = [reqLocals EXCEPT ![Accumulator(r)] = [next |-> i + 1, all |-> all]]
  /\ IF i + 1 > Len(sheets)
     THEN Resolved(r, NormalizeParsed(all))
     ELSE UNCHANGED << reqPc, reqNetlist >>

\* altium/index.ts:514-540: parseAltium of the next sheet has resolved, or
\* has thrown, which loadNetlist catches.
SheetParsed(r, sheets, locals, parsed) ==
  IF IsThrown(parsed)
  THEN /\ Resolved(r, NormalizeParsed(parsed))
       /\ UNCHANGED reqLocals
  ELSE SheetMerged(r, sheets, locals.next, MergeSheet(locals.all, parsed))

ParseSheet(r) ==
  /\ reqPc[r] = "sheets"
  /\ reqLocals[Accumulator(r)].next \in 1..Len(reqQuery[r].design.sheets)
  /\ SheetParsed(r, reqQuery[r].design.sheets, reqLocals[Accumulator(r)],
                 parseAltium(reqQuery[r].design.sheets[reqLocals[Accumulator(r)].next]))
  /\ UNCHANGED << reqQuery, reqResponse, exceptReqVars >>

\* cadence/index.ts:183-196: parseCadence has resolved.
ReadCadence(r) ==
  /\ reqPc[r] = "reading"
  /\ Resolved(r, NormalizeParsed(parseCadenceDesign(reqQuery[r].design)))
  /\ UNCHANGED << reqQuery, reqLocals, reqResponse, exceptReqVars >>

\* service.ts:737-777 and 795-873: the query is resumed with its netlist
\* and runs to its end.
Respond(r) ==
  /\ reqPc[r] = "loaded"
  /\ reqResponse' =
       [reqResponse EXCEPT ![r] =
          IF reqQuery[r].kind = "pin"
          THEN XnetByPinName(reqNetlist[r], reqQuery[r].arg, reqQuery[r].skipTypes,
                             reqQuery[r].includeDns)
          ELSE XnetByNetName(reqNetlist[r], reqQuery[r].arg, reqQuery[r].skipTypes,
                             reqQuery[r].includeDns)]
  /\ reqPc' = [reqPc EXCEPT ![r] = "responded"]
  /\ UNCHANGED << reqQuery, reqLocals, reqNetlist, exceptReqVars >>

NextRequests ==
  \/ \E r \in Requests : CallLoad(r)
  \/ \E r \in Requests : FilesFound(r)
  \/ \E r \in Requests : ParseSheet(r)
  \/ \E r \in Requests : ReadCadence(r)
  \/ \E r \in Requests : Respond(r)

SpecRequests ==
  InitRequests /\ [][NextRequests]_vars

\* The response of a query that is served alone.
Alone(query) ==
  IF query.kind = "pin"
  THEN queryXnetByPinName(query.design, query.arg, query.skipTypes, query.includeDns)
  ELSE queryXnetByNetName(query.design, query.arg, query.skipTypes, query.includeDns)

DecodedPinNet ==
  getPinNet(Get(Get(decoded.components, ResolvePin(loaded, pinQuery.pinSpec).refdes).pins,
                ResolvePin(loaded, pinQuery.pinSpec).pin))

\* The pin query resolved to a pin that is not connected: its net is NC in
\* the loaded netlist, or the decoder gave it an empty net name.
ResolvedToUnconnected ==
  /\ PinResolved
  /\ \/ ResolvePin(loaded, pinQuery.pinSpec).net = <<"N","C">>
     \/ DecodedPinNet = <<>>

\* C21: a pin query that resolves, whatever the case of the spec, to a pin
\* whose net is NC (a pin whose decoded net name was empty included) gives a
\* result that is not an error, with net NC, no components, no
\* configurations, NC as the only visited net and the fingerprint
\* nc-<refdes>.<pin> of the resolved keys.
C21_UnconnectedPinQuery ==
  ResolvedToUnconnected =>
    /\ ~isErrorResult(pinResult)
    /\ pinResult.net = <<"N","C">>
    /\ pinResult.total_components = 0
    /\ pinResult.unique_configurations = 0
    /\ pinResult.components_by_mpn = <<>>
    /\ pinResult.visited_nets = << <<"N","C">> >>
    /\ pinResult.skipped = <<>>
    /\ pinResult.starting_point =
         ResolvePin(loaded, pinQuery.pinSpec).refdes \o <<".">>
           \o ResolvePin(loaded, pinQuery.pinSpec).pin
    /\ pinResult.circuit_hash =
         <<"n","c","-">> \o ResolvePin(loaded, pinQuery.pinSpec).refdes \o <<".">>
           \o ResolvePin(loaded, pinQuery.pinSpec).pin

\* A pin query written in lower case, with a blank, for a pin of U1 whose
\* decoded net name was empty, answered with the NC result.
C21_Witness ==
  /\ PinResolved
  /\ DecodedPinNet = <<>>
  /\ ResolvePin(loaded, pinQuery.pinSpec).refdes = U1
  /\ pinQuery.pinSpec # ResolvePin(loaded, pinQuery.pinSpec).refdes \o <<".">>
                          \o ResolvePin(loaded, pinQuery.pinSpec).pin
  /\ pinResult.net = <<"N","C">>
  /\ pinResult.circuit_hash = <<"n","c","-","U","1",".">> \o ResolvePin(loaded, pinQuery.pinSpec).pin

\* ------------------------------------------------------------------------
\* naturalSort as a comparator
\* ------------------------------------------------------------------------

\* Longest string of the strings compared, the refdes-like ones apart.
MaxSortLen == 2

SortChars ==
  <<"U","u","1","0","2">>

\* Every string of at most MaxSortLen characters, and three longer ones.
SortStrings ==
  UNION { [1..n -> RangeOf(SortChars)] : n \in 0..MaxSortLen }
    \cup { <<"U","1","0">>, <<"U","0","1">>, <<"1","U","2">> }

InitSort ==
  /\ sortPc = "args"
  /\ sortArgs \in [1..3 -> SortStrings]
  /\ sortCompared = [ab |-> 0, ba |-> 0, bc |-> 0, ac |-> 0]
  /\ sortSorted = <<>>
  /\ TraversalIdle
  /\ HashIdle
  /\ LoadIdle
  /\ OleIdle
  /\ RecordsIdle
  /\ FrameIdle
  /\ RequestsIdle
  /\ DiscoveryIdle
  /\ ConnectivityIdle
  /\ ProjectIdle
  /\ HierarchyIdle

\* naturalSort(a, b), (b, a), (b, c) and (a, c), and [a, b, c].sort(naturalSort).
CompareAndSort ==
  /\ sortPc = "args"
  /\ sortCompared' = [ab |-> naturalSort(sortArgs[1], sortArgs[2]),
                      ba |-> naturalSort(sortArgs[2], sortArgs[1]),
                      bc |-> naturalSort(sortArgs[2], sortArgs[3]),
                      ac |-> naturalSort(sortArgs[1], sortArgs[3])]
  /\ sortSorted' = Sort(sortArgs, "pin")
  /\ sortPc' = "compared"
  /\ UNCHANGED << sortArgs, exceptSortVars >>

NextSort ==
  CompareAndSort

SpecSort ==
  InitSort /\ [][NextSort]_vars

Sign(x) ==
  IF x < 0 THEN -1 ELSE IF x > 0 THEN 1 ELSE 0

AllDigits(s) ==
  Len(s) > 0 /\ \A i \in 1..Len(s) : IsDigit(s[i])

NoDigits(s) ==
  \A i \in 1..Len(s) : ~IsDigit(s[i])

\* s is a text without digits followed by one run of digits.
TextThenNumber(s) ==
  \E k \in 0..(Len(s) - 1) : NoDigits(SubSeq(s, 1, k)) /\ AllDigits(DropFirst(s, k))

TextOf(s) ==
  SelectSeq(s, LAMBDA ch : ~IsDigit(ch))

NumberOf(s) ==
  ParseInt(SelectSeq(s, IsDigit))

\* C22: naturalSort is a consistent comparator: the sign of (b, a) is the
\* opposite of the sign of (a, b), a <= b and b <= c give a <= c, and ties
\* are transitive; the sorted array is in order and keeps tied strings in
\* their order of arrival.  A text run is compared without case and a digit
\* run by its value: of two strings made of the same text (up to case) and a
\* number, the one with the smaller number comes first, as U2 before U10.
C22_NaturalSortConsistent ==
  sortPc = "compared" =>
    /\ Sign(sortCompared.ba) = 0 - Sign(sortCompared.ab)
    /\ (sortCompared.ab <= 0 /\ sortCompared.bc <= 0) => sortCompared.ac <= 0
    /\ (sortCompared.ab = 0 /\ sortCompared.bc = 0) => sortCompared.ac = 0
    /\ Len(sortSorted) = 3
    /\ \A i, j \in 1..3 : i < j => naturalSort(sortSorted[i], sortSorted[j]) <= 0
    /\ \E perm \in [1..3 -> 1..3] :
         /\ \A i, j \in 1..3 : i # j => perm[i] # perm[j]
         /\ \A i \in 1..3 : sortSorted[i] = sortArgs[perm[i]]
         /\ \A i, j \in 1..3 :
              (i < j /\ naturalSort(sortSorted[i], sortSorted[j]) = 0) => perm[i] < perm[j]
    /\ (TextThenNumber(sortArgs[1]) /\ TextThenNumber(sortArgs[2])
        /\ ToLowerCase(TextOf(sortArgs[1])) = ToLowerCase(TextOf(sortArgs[2]))) =>
         Sign(sortCompared.ab) = Sign(NumberOf(sortArgs[1]) - NumberOf(sortArgs[2]))
    /\ (NoDigits(sortArgs[1]) /\ NoDigits(sortArgs[2])
        /\ ToLowerCase(sortArgs[1]) = ToLowerCase(sortArgs[2])) => sortCompared.ab = 0

\* U10, U2 and u2 compared and sorted: U2 is before U10 and ties with u2.
C22_Witness ==
  /\ sortPc = "compared"
  /\ sortArgs = << <<"U","1","0">>, <<"U","2">>, <<"u","2">> >>
  /\ sortCompared.ba < 0
  /\ sortCompared.bc = 0
  /\ sortSorted = << <<"U","2">>, <<"u","2">>, <<"U","1","0">> >>

\* ------------------------------------------------------------------------
\* Cadence discovery (parsers/cadence/discovery.ts)
\*
\* A directory is the sequence of its components below the root that is
\* walked.  A design file is [dir, name], name without extension.  A
\* complete .dat set is known by its directory.  walkForCadenceFiles lists
\* the design files and the .dat sets in the order readdir gives the
\* entries; the result of a search is [found, directory].
\* ------------------------------------------------------------------------

NoDatFiles ==
  [found |-> FALSE, directory |-> <<>>]

DatFilesOf(directory) ==
  [found |-> TRUE, directory |-> directory]

\* Lines 152-163: childDir is parentDir or below it.
isDescendantOrEqual(childDir, parentDir) ==
  /\ Len(parentDir) <= Len(childDir)
  /\ SubSeq(childDir, 1, Len(parentDir)) = parentDir

\* path.relative(designDir, directory) for a directory of the subtree, as
\* its components.
RelativePath(designDir, directory) ==
  DropFirst(directory, Len(designDir))

\* Lines 166-174.
designNameInRelativePath(relPath, designName) ==
  \E c \in 1..Len(relPath) : ToLowerCase(relPath[c]) = ToLowerCase(designName)

\* Lines 179-200.
scoreDatSetMatch(designDir, designName, directory) ==
  (IF designNameInRelativePath(RelativePath(designDir, directory), designName)
   THEN 1000 ELSE 0)
    - Len(RelativePath(designDir, directory))

\* scored.sort((a, b) => b.score - a.score)[0]: the first candidate with the
\* highest score.
BestCandidate(designDir, designName, candidates) ==
  candidates[CHOOSE i \in 1..Len(candidates) :
               /\ \A j \in 1..Len(candidates) :
                    scoreDatSetMatch(designDir, designName, candidates[j])
                      <= scoreDatSetMatch(designDir, designName, candidates[i])
               /\ \A j \in 1..(i - 1) :
                    scoreDatSetMatch(designDir, designName, candidates[j])
                      < scoreDatSetMatch(designDir, designName, candidates[i])]

\* Lines 230-247 and 337-359: no candidate, the only one, or the best.
PickDatSet(design, candidates) ==
  IF Len(candidates) = 0 THEN NoDatFiles
  ELSE IF Len(candidates) = 1 THEN DatFilesOf(candidates[1])
  ELSE DatFilesOf(BestCandidate(design.dir, design.name, candidates))

\* Lines 219-250: the designs from i on, used being the directories of the
\* sets assigned so far.
RECURSIVE MatchFrom(_, _, _, _)
MatchAssigned(designFiles, datSets, i, used, picked) ==
  << picked >> \o MatchFrom(designFiles, datSets, i + 1,
                            IF picked.found THEN used \cup { picked.directory } ELSE used)

MatchFrom(designFiles, datSets, i, used) ==
  IF i > Len(designFiles) THEN <<>>
  ELSE MatchAssigned(designFiles, datSets, i, used,
         PickDatSet(designFiles[i],
           SelectSeq(datSets, LAMBDA ds : ds \notin used
                                          /\ isDescendantOrEqual(ds, designFiles[i].dir))))

\* Lines 206-253.
matchDatSetsToDesigns(designFiles, datSets) ==
  MatchFrom(designFiles, datSets, 1, {})

\* Lines 320-360: the walk starts at the design's directory and finds the
\* sets of its subtree, in the order the walk of the root finds them.
findCadenceDatFiles(design, datSets) ==
  PickDatSet(design, SelectSeq(datSets, LAMBDA ds : isDescendantOrEqual(ds, design.dir)))

\* Largest number of design files and of .dat sets of a tree.
MaxDesignFiles == 2

MaxDatSets == 2

DesignFileChoices ==
  { [dir |-> d, name |-> n] : d \in { <<>>, << <<"w">> >> }, n \in { <<"a">>, <<"b">> } }

DatSetChoices ==
  { <<>>, << <<"w">> >>, << <<"w">>, <<"a">> >>, << <<"w">>, <<"A">>, <<"p">> >>, << <<"o">> >>,
    << <<"w">>, <<"b">> >> }

\* The sequences without repetition of at most n elements of S.
Listings(S, n) ==
  { s \in UNION { [1..k -> S] : k \in 0..n } :
      \A i, j \in 1..Len(s) : i # j => s[i] # s[j] }

InitDiscovery ==
  /\ discPc = "tree"
  /\ \E designFiles \in Listings(DesignFileChoices, MaxDesignFiles),
        datSets \in Listings(DatSetChoices, MaxDatSets) :
       /\ Len(designFiles) > 0
       /\ discTree = [designFiles |-> designFiles, datSets |-> datSets]
  /\ discAssignments = <<>>
  /\ discParsed = [design |-> 0, datFiles |-> NoDatFiles]
  /\ TraversalIdle
  /\ HashIdle
  /\ LoadIdle
  /\ OleIdle
  /\ RecordsIdle
  /\ FrameIdle
  /\ RequestsIdle
  /\ SortIdle
  /\ ConnectivityIdle
  /\ ProjectIdle
  /\ HierarchyIdle

\* discoverCadenceDesigns(rootDir): lines 270-315.
Discover ==
  /\ discPc = "tree"
  /\ discAssignments' = matchDatSetsToDesigns(discTree.designFiles, discTree.datSets)
  /\ discPc' = "discovered"
  /\ UNCHANGED << discTree, discParsed, exceptDiscVars >>

\* parseCadenceDesign(designPath) for a design discovery listed: its .dat
\* files are looked for again (cadence/index.ts:175).
FindDatFiles ==
  /\ discPc = "discovered"
  /\ \E d \in 1..Len(discTree.designFiles) :
       discParsed' = [design |-> d,
                      datFiles |-> findCadenceDatFiles(discTree.designFiles[d],
                                                       discTree.datSets)]
  /\ discPc' = "parsed"
  /\ UNCHANGED << discTree, discAssignments, exceptDiscVars >>

NextDiscovery ==
  \/ Discover
  \/ FindDatFiles

SpecDiscovery ==
  InitDiscovery /\ [][NextDiscovery]_vars

\* The designs of the tree are several, share their directory, have exactly
\* one .dat set in their subtree, and the relative path of that set holds
\* the name of design d and of no other design.
OnlySetNamedAfter(d) ==
  /\ Len(discTree.designFiles) >= 2
  /\ \A e \in 1..Len(discTree.designFiles) :
       discTree.designFiles[e].dir = discTree.designFiles[d].dir
  /\ Len(SelectSeq(discTree.datSets,
                   LAMBDA ds : isDescendantOrEqual(ds, discTree.designFiles[d].dir))) = 1
  /\ \A e \in 1..Len(discTree.designFiles) :
       (e = d) <=>
         \E i \in 1..Len(discTree.datSets) :
           /\ isDescendantOrEqual(discTree.datSets[i], discTree.designFiles[e].dir)
           /\ designNameInRelativePath(
                RelativePath(discTree.designFiles[e].dir, discTree.datSets[i]),
                discTree.designFiles[e].name)

\* C23 as claimed: when several design files share a directory, exactly one
\* complete .dat set is in their subtree and its relative path has the name
\* of one design as a component, discovery assigns the set to that design
\* and reports every other design as not exported, in whatever order the
\* walk lists the design files.
C23_NameMatchedAssignment ==
  discPc \in {"discovered", "parsed"} =>
    \A d \in 1..Len(discTree.designFiles) :
      OnlySetNamedAfter(d) =>
        /\ discAssignments[d].found
        /\ \A e \in 1..Len(discTree.designFiles) : e # d => ~discAssignments[e].found

\* C29 as claimed: the .dat set findCadenceDatFiles selects when a design is
\* parsed is the set, or none, that discovery reported for that design on
\* the same tree.
C29_DiscoveryAndParsingAgree ==
  discPc = "parsed" => discParsed.datFiles = discAssignments[discParsed.design]

\* ------------------------------------------------------------------------
\* Filters of the traversal against a model without the filtered components
\* ------------------------------------------------------------------------

\* The refdes starts, case apart, with a skip type of the call that is not
\* blank, or the component is DNS.
IsFilteredOut(refdes) ==
  \/ \E i \in 1..Len(Env.skipTypes) :
       /\ Env.skipTypes[i] # <<>>
       /\ StartsWith(ToUpperCase(refdes), Env.skipTypes[i])
  \/ isDnsComponent(HasComp(Env, refdes), CompOf(Env, refdes))

\* N without the filtered components, every net key kept.
NetsWithoutFiltered ==
  [i \in 1..Len(nets) |->
     << nets[i][1], SelectSeq(nets[i][2], LAMBDA entry : ~IsFilteredOut(entry[1])) >>]

\* C without the filtered components.
ComponentsWithoutFiltered ==
  SelectSeq(components, LAMBDA entry : ~IsFilteredOut(entry[1]))

\* The traversal of that model from the same start net, without filters.
UnfilteredTraversal ==
  traverseCircuitFromNet(startNet, NetsWithoutFiltered, ComponentsWithoutFiltered,
                         [skipTypes |-> <<>>, includeDns |-> FALSE])

\* C24 as claimed: on a symmetric model, the traversal with skip types S and
\* includeDns = false returns the components and visited_nets of the
\* traversal, without filters, of the model from which the components whose
\* refdes starts with a prefix of S or that are DNS have been removed from N
\* and C; no filtered component is in the result.
C24_FilterTransparency ==
  (pc = "done" /\ IsSymmetric(nets, components) /\ ~options.includeDns) =>
    /\ result.components = UnfilteredTraversal.components
    /\ result.visited_nets = UnfilteredTraversal.visited_nets
    /\ \A k \in 1..Len(result.components) : ~IsFilteredOut(result.components[k].refdes)

\* The same with the variant of a blank skip type left out.
C24_WithoutBlankSkipType ==
  (\A i \in 1..Len(Env.skipTypes) : Env.skipTypes[i] # <<>>) => C24_FilterTransparency

\* ------------------------------------------------------------------------
\* Termination and amount of work of the traversal
\* ------------------------------------------------------------------------

\* A step of the call is possible exactly until it has returned: at "call"
\* one of ReturnEmpty and Begin, in the loop one of Expand and Finish.
Running ==
  pc # "done"

\* traverseCircuitFromNet is synchronous: once called, its loop runs an
\* iteration after the other until the queue is empty and it returns.  This
\* is weak fairness of Next, WF_vars(Next), written with Running for
\* ENABLED <<Next>>_vars.
SpecTerminates ==
  Spec /\ ([]<>(~Running) \/ []<><<Next>>_vars)

\* The distinct (refdes, pin) pairs of N and of C.
ModelPins ==
  { << t[2], t[3] >> : t \in NetTriples(nets) } \cup ComponentPins(components)

\* Every net was put on the queue at most once and taken from it at most
\* once, and no more pin records were emitted than the model has pins.
BoundedWork ==
  /\ NoDuplicates(expanded \o queue)
  /\ Len(flatCircuit) <= Cardinality(ModelPins)

\* C30: for any model, symmetric or not, also one with loops of passive
\* components, traverseCircuitFromNet returns; each net is enqueued and
\* expanded at most once, and the number of pin records emitted is at most
\* the number of distinct (refdes, pin) pairs of N and C.
C30_TerminatesWithBoundedWork ==
  /\ []BoundedWork
  /\ <>(pc = "done")

\* The traversal has returned on a model in which R1 and R01 both join the
\* start net to another net, a loop of passives: both nets were expanded and
\* all four pins emitted.
C30_Witness ==
  /\ pc = "done"
  /\ Len(expanded) = 2
  /\ \A r \in {R1, R01} :
       /\ HasKey(components, r)
       /\ PinNetsOf(components, r) = RangeOf(expanded)
  /\ Len(flatCircuit) >= 4

\* ------------------------------------------------------------------------
\* Altium connectivity: grid-indexed union-find grouping of one sheet's
\* devices (altium/connectivity.ts) against the pairwise closure.
\* ------------------------------------------------------------------------

\* RECORD_TYPES of the connectable devices.
WIRE == "27"

Maximum(a, b) ==
  IF a >= b THEN a ELSE b

\* SpatialIndex.cellSize, scaled down with the coordinates (the source has
\* 10000 for coordinates scaled by 10000).
CellSize == 2
\* Largest x of a record's location or wire vertex; the sheet's records
\* lie on the line y = 0 and the pins point in all four directions.
MaxX == 4
\* Length of the pins.
MaxPinLength == 1
\* Number of devices on the sheet.
MaxDevices == 3

\* calculatePinCoordinates: origin and endpoint, rotation in quarter turns.
calculatePinCoordinates(location, rotationIndex, pinLength) ==
  LET endX == location[1] + (CASE rotationIndex = 0 -> pinLength
                               [] rotationIndex = 2 -> 0 - pinLength
                               [] OTHER -> 0)
      endY == location[2] + (CASE rotationIndex = 1 -> pinLength
                               [] rotationIndex = 3 -> 0 - pinLength
                               [] OTHER -> 0)
  IN  << location, <<endX, endY>> >>

\* The devices a sheet can hold, before they get their index: wires with
\* no, one or two vertices, in both directions, short and across every
\* grid cell; pins in the four rotations, and one of length 0; net labels
\* and power ports with and without text.
WireChoices ==
  {[RECORD |-> WIRE, coords |-> <<>>, Text |-> ""],
   [RECORD |-> WIRE, coords |-> << <<0, 0>> >>, Text |-> ""]}
    \cup ({[RECORD |-> WIRE, coords |-> << <<x1, 0>>, <<x2, 0>> >>, Text |-> ""] :
            x1 \in {0, 1, MaxX}, x2 \in {0, 1, MaxX}} \
       {[RECORD |-> WIRE, coords |-> << <<x, 0>>, <<x, 0>> >>, Text |-> ""] :
          x \in {0, 1, MaxX}})

PinChoices ==
  {[RECORD |-> PIN, coords |-> calculatePinCoordinates(<<x, 0>>, r, MaxPinLength),
    Text |-> ""] : x \in {2, MaxX}, r \in 0..3}
    \cup {[RECORD |-> PIN, coords |-> calculatePinCoordinates(<<2, 0>>, 0, 0),
            Text |-> ""]}

LabelChoices ==
  {[RECORD |-> NET_LABEL, coords |-> << <<x, 0>> >>, Text |-> t] :
     x \in {2, MaxX - 1}, t \in {"", "A"}}
    \cup {[RECORD |-> POWER_PORT, coords |-> << <<0, 0>> >>, Text |-> t] :
            t \in {"", "A"}}

DeviceChoices ==
  WireChoices \cup PinChoices \cup LabelChoices

WithIndex(device, index) ==
  [index |-> index, RECORD |-> device.RECORD, coords |-> device.coords,
   Text |-> device.Text]

\* getLineSegments(device): lines 155-170.
getLineSegments(device) ==
  IF Len(device.coords) = 0 THEN <<>>
  ELSE IF device.RECORD = WIRE /\ Len(device.coords) > 1
    THEN [i \in 1..(Len(device.coords) - 1) |->
            <<device.coords[i], device.coords[i + 1]>>]
  ELSE IF device.RECORD = PIN /\ Len(device.coords) > 1
    THEN << <<device.coords[1], device.coords[2]>> >>
  ELSE << <<device.coords[1], device.coords[1]>> >>

\* pointOnSegment(point, segment): the bounding-box test of lines 175-186.
pointOnSegment(point, segment) ==
  LET p1 == segment[1]
      p2 == segment[2]
  IN  /\ point[1] >= Minimum(p1[1], p2[1])
      /\ point[1] <= Maximum(p1[1], p2[1])
      /\ point[2] >= Minimum(p1[2], p2[2])
      /\ point[2] <= Maximum(p1[2], p2[2])

pointOnAnySegment(point, segments) ==
  \E s \in 1..Len(segments) : pointOnSegment(point, segments[s])

isGloballyNamedDevice(d) ==
  d.RECORD = POWER_PORT \/ d.RECORD = NET_LABEL

\* isConnected(deviceA, deviceB): lines 211-249.
isConnected(deviceA, deviceB) ==
  LET segmentsA == getLineSegments(deviceA)
      segmentsB == getLineSegments(deviceB)
  IN  \/ \E s \in 1..Len(segmentsA) : \E v \in 1..2 :
           pointOnAnySegment(segmentsA[s][v], segmentsB)
      \/ \E s \in 1..Len(segmentsB) : \E v \in 1..2 :
           pointOnAnySegment(segmentsB[s][v], segmentsA)
      \/ /\ isGloballyNamedDevice(deviceA)
         /\ isGloballyNamedDevice(deviceB)
         /\ deviceA.Text # ""
         /\ deviceB.Text # ""
         /\ deviceA.Text = deviceB.Text

\* Math.floor(v / cellSize), also for negative v.
CellOf(v) == v \div CellSize

\* SpatialIndex.cellKey(x, y).
cellKey(coord) == <<CellOf(coord[1]), CellOf(coord[2])>>

\* A sequence without the later copies of its elements: the insertion
\* order of a JS Set or of a Map's keys.
InsertLast(front, last) ==
  IF \E i \in 1..Len(front) : front[i] = last THEN front
  ELSE Append(front, last)

RECURSIVE InsertionOrder(_)
InsertionOrder(seq) ==
  IF seq = <<>> THEN <<>>
  ELSE InsertLast(InsertionOrder(SubSeq(seq, 1, Len(seq) - 1)), seq[Len(seq)])

RECURSIVE Flat(_)
Flat(seqs) ==
  IF seqs = <<>> THEN <<>> ELSE Head(seqs) \o Flat(Tail(seqs))

\* SpatialIndex.cellsForSegment(p1, p2): every cell of the bounding box,
\* cx in the outer loop.
cellsForSegment(p1, p2) ==
  LET minCx == CellOf(Minimum(p1[1], p2[1]))
      maxCx == CellOf(Maximum(p1[1], p2[1]))
      minCy == CellOf(Minimum(p1[2], p2[2]))
      maxCy == CellOf(Maximum(p1[2], p2[2]))
  IN  Flat([cx \in 1..(maxCx - minCx + 1) |->
              [cy \in 1..(maxCy - minCy + 1) |->
                 <<minCx + cx - 1, minCy + cy - 1>>]])

\* The cells of the device's coordinates alone.
AllCellsOfCoords(device) ==
  LET ofCoords == [i \in 1..Len(device.coords) |-> cellKey(device.coords[i])]
  IN  InsertionOrder(ofCoords)

\* The cells addDevice registers the device in: those of its coordinates
\* and, for a wire or a pin, those its segments pass through.
AllCells(device) ==
  LET ofCoords == [i \in 1..Len(device.coords) |-> cellKey(device.coords[i])]
      ofSegments ==
        IF device.RECORD \in {WIRE, PIN} /\ Len(device.coords) > 1
          THEN Flat([i \in 1..(Len(device.coords) - 1) |->
                       cellsForSegment(device.coords[i], device.coords[i + 1])])
          ELSE <<>>
  IN  InsertionOrder(ofCoords \o ofSegments)

\* SpatialIndex.segmentCells after addDevice: lines 92-126; a device
\* without coordinates is not registered.
segmentCells(device) ==
  IF Len(device.coords) = 0 THEN <<>> ELSE AllCells(device)

\* SpatialIndex.grid: the devices registered in a cell, in device order.
Grid(devices, cell) ==
  LET inCell == SelectSeq(devices,
                  LAMBDA d : \E c \in 1..Len(segmentCells(d)) :
                               segmentCells(d)[c] = cell)
  IN  [i \in 1..Len(inCell) |-> inCell[i].index]

\* SpatialIndex.getCandidates(device): lines 128-143.
getCandidates(devices, device) ==
  LET cells == segmentCells(device)
      found == InsertionOrder(Flat([c \in 1..Len(cells) |-> Grid(devices, cells[c])]))
  IN  SelectSeq(found, LAMBDA idx : idx # device.index)

\* SpatialIndex.pointToDevices: per coordinate, in the order the
\* coordinates were first seen, the indices of the devices registered there.
getPointToDevices(devices) ==
  LET entries == Flat([d \in 1..Len(devices) |->
                         [c \in 1..Len(devices[d].coords) |->
                            [coord |-> devices[d].coords[c],
                             index |-> devices[d].index]]])
      keys == InsertionOrder([e \in 1..Len(entries) |-> entries[e].coord])
  IN  [k \in 1..Len(keys) |->
         LET here == SelectSeq(entries, LAMBDA e : e.coord = keys[k])
         IN  [i \in 1..Len(here) |-> here[i].index]]

\* UnionFind: parent and rank of the indices seen so far.
NewUnionFind == [parent |-> <<>>, rank |-> <<>>]

UfKnown(uf, x) ==
  \E i \in 1..Len(uf.parent) : uf.parent[i][1] = x

UfGet(map, x) ==
  map[CHOOSE i \in 1..Len(map) : map[i][1] = x][2]

UfSet(map, x, value) ==
  IF \E i \in 1..Len(map) : map[i][1] = x
    THEN [map EXCEPT ![CHOOSE i \in 1..Len(map) : map[i][1] = x] = <<x, value>>]
    ELSE Append(map, <<x, value>>)

\* UnionFind.find(x), lines 21-24: an index not seen before becomes its
\* own parent, with rank 0.
UfSeen(uf, x) ==
  IF UfKnown(uf, x) THEN uf
  ELSE [parent |-> UfSet(uf.parent, x, x), rank |-> UfSet(uf.rank, x, 0)]

\* UnionFind.find(x), line 27: the path compression.
UfCompressed(above, x) ==
  [uf |-> [parent |-> UfSet(above.uf.parent, x, above.root), rank |-> above.uf.rank],
   root |-> above.root]

\* UnionFind.find(x): lines 21-30; the structure afterwards and the root.
RECURSIVE UfFind(_, _)
RECURSIVE UfFindSeen(_, _)
UfFind(uf, x) ==
  UfFindSeen(UfSeen(uf, x), x)

UfFindSeen(seen, x) ==
  IF UfGet(seen.parent, x) # x
    THEN UfCompressed(UfFind(seen, UfGet(seen.parent, x)), x)
    ELSE [uf |-> seen, root |-> x]

\* UnionFind.union(x, y), lines 36-45: the root of lower rank goes under the
\* other, which gains a rank when the ranks were equal.
UfLink(uf, rootX, rootY, rankX, rankY) ==
  IF rootX = rootY THEN uf
  ELSE IF rankX < rankY
    THEN [parent |-> UfSet(uf.parent, rootX, rootY), rank |-> uf.rank]
  ELSE [parent |-> UfSet(uf.parent, rootY, rootX),
        rank |-> IF rankX = rankY THEN UfSet(uf.rank, rootX, rankX + 1)
                 ELSE uf.rank]

UfUnionRoots(uf, rootX, rootY) ==
  UfLink(uf, rootX, rootY, UfGet(uf.rank, rootX), UfGet(uf.rank, rootY))

UfUnionSecond(rootX, fy) ==
  UfUnionRoots(fy.uf, rootX, fy.root)

UfUnionFound(fx, y) ==
  UfUnionSecond(fx.root, UfFind(fx.uf, y))

\* UnionFind.union(x, y): lines 32-46.
UfUnion(uf, x, y) ==
  UfUnionFound(UfFind(uf, x), y)

\* uf.union(first, rest[i]) for i = from..Len(rest).  (In this and the
\* following loops the structure is compared with itself so that TLC
\* evaluates it before the next iteration, not lazily at the end.)
RECURSIVE UnionAll(_, _, _, _)
UnionAll(uf, first, rest, from) ==
  IF from > Len(rest) THEN uf
  ELSE LET united == UfUnion(uf, first, rest[from])
       IN  IF united = united THEN UnionAll(united, first, rest, from + 1) ELSE uf

\* The loop over lists of indices that unions each list with its first
\* element: lines 285-293 and 306-314.
RECURSIVE UnionLists(_, _, _)
UnionLists(uf, lists, from) ==
  IF from > Len(lists) THEN uf
  ELSE LET united == IF Len(lists[from]) > 1
                       THEN UnionAll(uf, lists[from][1], lists[from], 2)
                       ELSE uf
       IN  IF united = united THEN UnionLists(united, lists, from + 1) ELSE uf

DeviceByIndex(devices, index) ==
  devices[CHOOSE d \in 1..Len(devices) : devices[d].index = index]

\* The candidates of one device that isConnected accepts: lines 297-302.
ConnectedCandidates(devices, device) ==
  SelectSeq(getCandidates(devices, device),
            LAMBDA idx : isConnected(device, DeviceByIndex(devices, idx)))

\* The loop over the devices that unions each with its connected
\* candidates: lines 295-303.
RECURSIVE UnionCandidates(_, _, _)
UnionCandidates(uf, devices, from) ==
  IF from > Len(devices) THEN uf
  ELSE LET united == UnionAll(uf, devices[from].index,
                              ConnectedCandidates(devices, devices[from]), 1)
       IN  IF united = united THEN UnionCandidates(united, devices, from + 1) ELSE uf

\* globalLabels: per text, the power ports and net labels carrying it.
GlobalLabels(devices) ==
  LET named == SelectSeq(devices,
                 LAMBDA d : isGloballyNamedDevice(d) /\ d.Text # "")
      texts == InsertionOrder([d \in 1..Len(named) |-> named[d].Text])
  IN  [t \in 1..Len(texts) |->
         LET same == SelectSeq(named, LAMBDA d : d.Text = texts[t])
         IN  [i \in 1..Len(same) |-> same[i].index]]

\* uf.find(d.index) for every device: lines 266-269.
RECURSIVE UfInitialize(_, _, _)
UfInitialize(uf, devices, from) ==
  IF from > Len(devices) THEN uf
  ELSE LET found == UfFind(uf, devices[from].index).uf
       IN  IF found = found THEN UfInitialize(found, devices, from + 1) ELSE uf

\* findAllConnectedComponents(devices): lines 255-326; the groups in the
\* order of their first device, as device indices.
findAllConnectedComponents(devices) ==
  IF Len(devices) = 0 THEN <<>>
  ELSE
    LET initial == UfInitialize(NewUnionFind, devices, 1)
        byPoint == UnionLists(initial, getPointToDevices(devices), 1)
        byGeometry == UnionCandidates(byPoint, devices, 1)
        uf == UnionLists(byGeometry, GlobalLabels(devices), 1)
        rootOf == [d \in 1..Len(devices) |-> UfFind(uf, devices[d].index).root]
        roots == InsertionOrder(rootOf)
    IN  [r \in 1..Len(roots) |->
           LET members == SelectSeq([d \in 1..Len(devices) |-> d],
                                    LAMBDA d : rootOf[d] = roots[r])
           IN  [m \in 1..Len(members) |-> devices[members[m]].index]]

\* findNeighbors(device, allDevices): lines 331-345.
findNeighbors(device, allDevices) ==
  SelectSeq(allDevices,
            LAMBDA other : other.index # device.index /\ isConnected(device, other))

\* findConnectedDevices(startDevice, allDevices, visited): the depth-first
\* search of lines 352-370, as the indices visited.
RECURSIVE findConnectedDevices(_, _, _)
RECURSIVE VisitNeighbors(_, _, _, _)
findConnectedDevices(startDevice, allDevices, visited) ==
  IF \E v \in 1..Len(visited) : visited[v] = startDevice.index THEN visited
  ELSE VisitNeighbors(findNeighbors(startDevice, allDevices), 1, allDevices,
                      Append(visited, startDevice.index))

VisitNeighbors(neighbors, from, allDevices, visited) ==
  IF from > Len(neighbors) THEN visited
  ELSE VisitNeighbors(neighbors, from + 1, allDevices,
                      findConnectedDevices(neighbors[from], allDevices, visited))

InitConnectivity ==
  /\ connPc = "collect"
  /\ connDevices = <<>>
  /\ connGroups = <<>>
  /\ TraversalIdle
  /\ HashIdle
  /\ LoadIdle
  /\ OleIdle
  /\ RecordsIdle
  /\ FrameIdle
  /\ RequestsIdle
  /\ SortIdle
  /\ DiscoveryIdle
  /\ ProjectIdle
  /\ HierarchyIdle

\* extractNets: one more connectable record is collected and gets its
\* coordinates; its index is its place among the records.
CollectDevice ==
  /\ connPc = "collect"
  /\ Len(connDevices) < MaxDevices
  /\ \E device \in DeviceChoices :
       connDevices' = Append(connDevices, WithIndex(device, Len(connDevices)))
  /\ UNCHANGED << connPc, connGroups, exceptConnVars >>

\* extractNets: the collected devices are grouped.
GroupDevices ==
  /\ connPc = "collect"
  /\ connGroups' = findAllConnectedComponents(connDevices)
  /\ connPc' = "grouped"
  /\ UNCHANGED << connDevices, exceptConnVars >>

NextConnectivity ==
  \/ CollectDevice
  \/ GroupDevices

SpecConnectivity ==
  InitConnectivity /\ [][NextConnectivity]_vars

ToSet(seq) == {seq[i] : i \in 1..Len(seq)}

GroupOfIndex(groups, index) ==
  {g \in 1..Len(groups) : index \in ToSet(groups[g])}

\* C25: once a sheet's devices are grouped, every device is in exactly one
\* group, and two devices share a group exactly when the depth-first search
\* over isConnected from one of them visits the other.
C25_GroupingEqualsClosure ==
  connPc = "grouped" =>
    /\ \A d \in 1..Len(connDevices) :
         Cardinality(GroupOfIndex(connGroups, connDevices[d].index)) = 1
    /\ \A g \in 1..Len(connGroups) :
         /\ Cardinality(ToSet(connGroups[g])) = Len(connGroups[g])
         /\ \A i \in ToSet(connGroups[g]) :
              \E d \in 1..Len(connDevices) : connDevices[d].index = i
    /\ \A d \in 1..Len(connDevices) :
         LET reached == ToSet(findConnectedDevices(connDevices[d], connDevices, <<>>))
         IN  \A e \in 1..Len(connDevices) :
               (GroupOfIndex(connGroups, connDevices[d].index)
                  = GroupOfIndex(connGroups, connDevices[e].index))
                 <=> connDevices[e].index \in reached

\* Three devices are grouped where the first and the last are joined only
\* through the middle one, a wire spanning two grid cells, and none of the
\* three shares an exact coordinate with another.
C25_Witness ==
  /\ connPc = "grouped"
  /\ Len(connDevices) = 3
  /\ Len(connGroups) = 1
  /\ ~isConnected(connDevices[1], connDevices[3])
  /\ connDevices[2].RECORD = WIRE
  /\ Len(segmentCells(connDevices[2])) > 1
  /\ \A d, e \in 1..3 :
       d # e => ToSet(connDevices[d].coords) \cap ToSet(connDevices[e].coords) = {}

\* ------------------------------------------------------------------------
\* Decoding an Altium project sheet by sheet (altium/index.ts:509-547):
\* the names convertNets gives to nets that assignNetName left unnamed.
\* ------------------------------------------------------------------------

\* Sheets of a project.
MaxProjectSheets == 2

\* A pin whose number is stored under the key DESIGNATOR next to an empty
\* Designator: convertNets reads its number, the net extractor does not.
UpperCasePin(owner, number) ==
  [Record(PIN, owner, Undefined, <<>>, Undefined, Undefined)
     EXCEPT !.DESIGNATOR = number]

Wire ==
  Record(WIRE, Undefined, Undefined, Undefined, Undefined, Undefined)

\* A sheet with one part, refdes, and two pins of it, each on a wire of its
\* own.  kinds[k] says how the number of pin k is stored: "plain" (under
\* Designator), "upper" (under DESIGNATOR, Designator empty) or "absent"
\* (the pin and its wire are not on the sheet).
WiredSheet(refdes, kinds) ==
  LET PinOr(k, number) ==
        IF kinds[k] = "plain"
          THEN Record(PIN, <<"0">>, Undefined, number, Undefined, Undefined)
        ELSE IF kinds[k] = "upper" THEN UpperCasePin(<<"0">>, number)
        ELSE Graphic
      WireOr(k) == IF kinds[k] = "absent" THEN Graphic ELSE Wire
  IN  [records |->
         << Record(COMPONENT, Undefined, Undefined, Undefined, Undefined, MpnIC),
            Record(DESIGNATOR, <<"0">>, refdes, Undefined, Undefined, Undefined),
            PinOr(1, P1), WireOr(1), PinOr(2, P2), WireOr(2) >>,
       groups |-> (IF kinds[1] = "absent" THEN <<>> ELSE << << 2, 3 >> >>)
                    \o (IF kinds[2] = "absent" THEN <<>> ELSE << << 4, 5 >> >>)]

WiredSheets ==
  { WiredSheet(refdes, kinds) :
      refdes \in {U1, R1},
      kinds \in { k \in [1..2 -> {"plain", "upper", "absent"}] : k[1] # "absent" } }

InitProject ==
  /\ projPc = "sheets"
  /\ \E n \in 1..MaxProjectSheets : projSheets \in [1..n -> WiredSheets]
  /\ projNext = 1
  /\ projAll = [nets |-> <<>>, components |-> <<>>]
  /\ TraversalIdle
  /\ HashIdle
  /\ LoadIdle
  /\ OleIdle
  /\ RecordsIdle
  /\ FrameIdle
  /\ RequestsIdle
  /\ SortIdle
  /\ DiscoveryIdle
  /\ ConnectivityIdle
  /\ HierarchyIdle

\* Lines 521-540: one turn of the loop, the next sheet is parsed and merged.
ParseProjectSheet ==
  /\ projPc = "sheets"
  /\ projNext <= Len(projSheets)
  /\ projAll' = MergeSheet(projAll, parseAltium(projSheets[projNext]))
  /\ projNext' = projNext + 1
  /\ UNCHANGED << projPc, projSheets, exceptProjVars >>

\* Lines 543-546: the loop is over, allNets and allComponents are returned.
ReturnProject ==
  /\ projPc = "sheets"
  /\ projNext > Len(projSheets)
  /\ projPc' = "returned"
  /\ UNCHANGED << projSheets, projNext, projAll, exceptProjVars >>

NextProject ==
  \/ ParseProjectSheet
  \/ ReturnProject

SpecProject ==
  InitProject /\ [][NextProject]_vars

\* The nets of a sheet that assignNetName left without a name and that
\* convertNets stores, having a pin with a refdes and a number.
UnnamedStored(sheet) ==
  LET h == buildHierarchy(sheet.records)
  IN  SelectSeq(extractNets(h, sheet.groups),
                LAMBDA net : /\ net.name = Null
                             /\ ~IsLonePin(h, net)
                             /\ Len(PinsByComponent(h, net.devices, 1, <<>>)) > 0)

IsUnnamedKey(netName) ==
  /\ Len(netName) > 10
  /\ SubSeq(netName, 1, 10) = <<"U","n","n","a","m","e","d","N","e","t">>

RECURSIVE SumOver(_, _)
SumOver(counts, i) ==
  IF i > Len(counts) THEN 0 ELSE counts[i] + SumOver(counts, i + 1)

\* C26: when the project has been decoded, N holds one UnnamedNet<k> key
\* for every unnamed net stored from any of its sheets: no two of them share
\* a key.
C26_UnnamedNetsDistinct ==
  projPc = "returned" =>
    Cardinality({ n \in 1..Len(projAll.nets) : IsUnnamedKey(projAll.nets[n][1]) })
      = SumOver([s \in 1..Len(projSheets) |-> Len(UnnamedStored(projSheets[s]))], 1)

\* Within one sheet the unnamed nets do get different keys.
C26_DistinctWithinSheet ==
  (projPc = "returned" /\ Len(projSheets) = 1) =>
    Cardinality({ n \in 1..Len(projAll.nets) : IsUnnamedKey(projAll.nets[n][1]) })
      = Len(UnnamedStored(projSheets[1]))

\* A decoded sheet holding two unnamed nets.
C26_TwoUnnamedOnOneSheet ==
  /\ projPc = "returned"
  /\ Len(projSheets) = 1
  /\ Len(UnnamedStored(projSheets[1])) = 2

\* ------------------------------------------------------------------------
\* The hierarchy of a sheet's records for any owner indices
\* (altium/connectivity.ts:387-481).
\* ------------------------------------------------------------------------

\* Records of a sheet.
MaxRecords == 3

\* The OwnerIndex of a record of a list of n records: absent, empty, the
\* index of a record of the list (its own included) or one past the last.
OwnerChoices(n) ==
  {Undefined, <<>>} \cup {IntToString(k) : k \in 0..n}

OwnedRecord(owner) ==
  Record("6", owner, Undefined, Undefined, Undefined, Undefined)

RecordLists ==
  UNION { { [k \in 1..n |-> OwnedRecord(owners[k])] : owners \in [1..n -> OwnerChoices(n)] } :
            n \in 1..MaxRecords }

\* flattenHierarchy, lines 432-449: every record reached from the roots,
\* each before its children; the indices in the order met.
RECURSIVE TraverseRecords(_, _)
TraverseRecords(h, list) ==
  IF Len(list) = 0 THEN <<>>
  ELSE << list[1] >> \o TraverseRecords(h, ChildrenOf(h, list[1]))
         \o TraverseRecords(h, Tail(list))

flattenHierarchy(h) ==
  TraverseRecords(h, h.roots)

InitHierarchy ==
  /\ hierPc = "records"
  /\ hierRecords \in RecordLists
  /\ hierHierarchy = [records |-> <<>>, roots |-> <<>>, children |-> <<>>]
  /\ hierFlat = <<>>
  /\ hierFound = [index |-> 0, found |-> <<>>]
  /\ TraversalIdle
  /\ HashIdle
  /\ LoadIdle
  /\ OleIdle
  /\ RecordsIdle
  /\ FrameIdle
  /\ RequestsIdle
  /\ SortIdle
  /\ DiscoveryIdle
  /\ ConnectivityIdle
  /\ ProjectIdle

\* buildHierarchy(schematic)
BuildHierarchy ==
  /\ hierPc = "records"
  /\ hierHierarchy' = buildHierarchy(hierRecords)
  /\ hierPc' = "built"
  /\ UNCHANGED << hierRecords, hierFlat, hierFound, exceptHierVars >>

\* flattenHierarchy(hierarchy)
FlattenHierarchy ==
  /\ hierPc = "built"
  /\ hierFlat' = flattenHierarchy(hierHierarchy)
  /\ hierPc' = "flat"
  /\ UNCHANGED << hierRecords, hierHierarchy, hierFound, exceptHierVars >>

\* findRecordByIndex(hierarchy, index) for an index of the list
FindRecord ==
  /\ hierPc = "flat"
  /\ \E index \in 0..(Len(hierRecords) - 1) :
       hierFound' = [index |-> index, found |-> findRecordByIndex(hierHierarchy, index)]
  /\ hierPc' = "found"
  /\ UNCHANGED << hierRecords, hierHierarchy, hierFlat, exceptHierVars >>

NextHierarchy ==
  \/ BuildHierarchy
  \/ FlattenHierarchy
  \/ FindRecord

SpecHierarchy ==
  InitHierarchy /\ [][NextHierarchy]_vars

\* C27: the flattened hierarchy holds every index of the list exactly once,
\* and findRecordByIndex finds every index of the list.
C27_HierarchyCoversEveryRecord ==
  /\ hierPc \in {"flat", "found"} =>
       /\ Len(hierFlat) = Len(hierRecords)
       /\ \A index \in 0..(Len(hierRecords) - 1) :
            \E i \in 1..Len(hierFlat) : hierFlat[i] = index
  /\ hierPc = "found" => hierFound.found = << hierFound.index >>

\* The owner of the record at index, followed up the list, ends at a record
\* without a usable owner within steps records.
RECURSIVE ReachesRoot(_, _, _)
ReachesRoot(records, index, steps) ==
  IF ~HasOwner(records, index + 1) THEN TRUE
  ELSE IF steps = 0 THEN FALSE
  ELSE ReachesRoot(records, ParseInt(records[index + 1].OwnerIndex), steps - 1)

\* Without a record that owns itself and without a cycle of owners, the
\* hierarchy does cover every record.
C27_CoversWithoutOwnerCycle ==
  (\A index \in 0..(Len(hierRecords) - 1) :
     ReachesRoot(hierRecords, index, Len(hierRecords))) =>
    C27_HierarchyCoversEveryRecord

\* A list without an owner cycle, with a record two levels below a root, has
\* been flattened and searched.
C27_DeepHierarchySearched ==
  /\ hierPc = "found"
  /\ \A index \in 0..(Len(hierRecords) - 1) :
       ReachesRoot(hierRecords, index, Len(hierRecords))
  /\ \E index \in 0..(Len(hierRecords) - 1) :
       /\ HasOwner(hierRecords, index + 1)
       /\ HasOwner(hierRecords, ParseInt(hierRecords[index + 1].OwnerIndex) + 1)
       /\ hierFound.index = index

\* ------------------------------------------------------------------------
\* The nodes of a pstxnet file against the nets parsed from it
\* (cadence/pstxnet-parser.ts:21-61).
\* ------------------------------------------------------------------------

\* The nodes written in the NET_NAME sections of a file, as <<net, refdes,
\* pin>>: net is the quoted name that follows the section's NET_NAME line,
\* Undefined outside a section and Null before the name.
RECURSIVE SectionNodes(_, _, _)
SectionNodes(lines, i, net) ==
  IF i > Len(lines) THEN {}
  ELSE IF Trim(lines[i]) = <<"N","E","T","_","N","A","M","E">> THEN SectionNodes(lines, i + 1, Null)
  ELSE IF net = Null /\ StartsWith(Trim(lines[i]), <<"'">>) /\ EndsWith(Trim(lines[i]), <<"'">>)
    THEN SectionNodes(lines, i + 1, SubSeq(Trim(lines[i]), 2, Len(Trim(lines[i])) - 1))
  ELSE IF /\ net \notin {Null, Undefined}
          /\ StartsWith(Trim(lines[i]), <<"N","O","D","E","_","N","A","M","E">>)
          /\ Len(SplitBlanks(Trim(lines[i]))) >= 3
    THEN { << net, SplitBlanks(Trim(lines[i]))[2], SplitBlanks(Trim(lines[i]))[3] >> }
           \cup SectionNodes(lines, i + 1, net)
  ELSE SectionNodes(lines, i + 1, net)

\* The names of the sections of a file, in file order.
RECURSIVE SectionNames(_, _, _)
SectionNames(lines, i, net) ==
  IF i > Len(lines) THEN <<>>
  ELSE IF Trim(lines[i]) = <<"N","E","T","_","N","A","M","E">> THEN SectionNames(lines, i + 1, Null)
  ELSE IF net = Null /\ StartsWith(Trim(lines[i]), <<"'">>) /\ EndsWith(Trim(lines[i]), <<"'">>)
    THEN << SubSeq(Trim(lines[i]), 2, Len(Trim(lines[i])) - 1) >>
           \o SectionNames(lines, i + 1, <<>>)
  ELSE SectionNames(lines, i + 1, net)

NodeParsed(N, node) ==
  /\ HasKey(N, node[1])
  /\ HasKey(Get(N, node[1]), node[2])
  /\ InSeq(node[3], Get(Get(N, node[1]), node[2]))

ParsedCadence ==
  /\ loadPc # "design"
  /\ designFile.kind = "cadence"
  /\ designFile.datFiles
  /\ ~IsThrown(decoded)

\* C28: every node written in a NET_NAME section of the pstxnet file is in
\* the decoded N under the section's net name and its refdes.
C28_NoNodeLost ==
  ParsedCadence =>
    \A node \in SectionNodes(designFile.pstxnet, 1, Undefined) :
      NodeParsed(decoded.nets, node)

\* When no two sections of the file have the same name, no node is lost.
C28_NoNodeLostWithDistinctNames ==
  (/\ ParsedCadence
   /\ \A a, b \in 1..Len(SectionNames(designFile.pstxnet, 1, Undefined)) :
        a # b => SectionNames(designFile.pstxnet, 1, Undefined)[a]
                   # SectionNames(designFile.pstxnet, 1, Undefined)[b]) =>
    \A node \in SectionNodes(designFile.pstxnet, 1, Undefined) :
      NodeParsed(decoded.nets, node)

\* A file of two sections with different names and three nodes, two of them
\* on one refdes, has been parsed.
C28_TwoSectionsParsed ==
  /\ ParsedCadence
  /\ Len(SectionNames(designFile.pstxnet, 1, Undefined)) = 2
  /\ SectionNames(designFile.pstxnet, 1, Undefined)[1]
       # SectionNames(designFile.pstxnet, 1, Undefined)[2]
  /\ Cardinality(SectionNodes(designFile.pstxnet, 1, Undefined)) = 3
  /\ \E a, b \in SectionNodes(designFile.pstxnet, 1, Undefined) :
       a # b /\ a[1] = b[1] /\ a[2] = b[2]

====
